---- MODULE Spec2Model ----
(***************************************************************************)
(* State-machine model of the client-side orchestration layer of           *)
(* LoquiLex-UI (web/src/orchestration): ConcurrencyLimiter, BoundedQueue / *)
(* MessageBuffer and WSClient.  Every component is one record-valued       *)
(* variable; a handler of the source is an operator from the record before *)
(* the call to the record after it, and an action applies one handler.     *)
(***************************************************************************)
EXTENDS Integers, Sequences, FiniteSets, TLC

VARIABLES lim, mb, cl, ev, rt, ut

vars == <<lim, mb, cl, ev, rt, ut>>

\* everything but the utility objects of ut
core == <<lim, mb, cl, ev, rt>>

(***************************************************************************)
(* Bounds of the model                                                     *)
(***************************************************************************)
MaxOps == 4
MaxConcurrentBound == 2
QueueLimitBound == 2
MaxBufOps == 4
MaxSizeBound == 2
MaxConnects == 2
MaxAttemptsBound == 2
MaxSends == 2
MaxTransports == 3
MaxSimulated == 3
MaxRetryAttempts == 5
MaxCallbacks == 3
MaxPermits == 2
MaxSemCalls == 3
MaxRlCalls == 4
MaxNow == 2000
MaxThCalls == 3
MaxThNow == 2000
MaxVsCalls == 3
MaxRequests == 2
MaxWcNow == 10000
MaxAoNow == 4

\* ---- generic helpers -------------------------------------------------
RemoveAt(s, i) == SubSeq(s, 1, i - 1) \o SubSeq(s, i + 1, Len(s))

IndexOf(s, x) ==
  IF \E i \in 1..Len(s) : s[i] = x
  THEN CHOOSE i \in 1..Len(s) : s[i] = x /\ \A j \in 1..(i - 1) : s[j] # x
  ELSE 0

Event(op, arg, ret) == [op |-> op, arg |-> arg, ret |-> ret]

(***************************************************************************)
(* ConcurrencyLimiter  (utils/concurrency-fixed.ts)                        *)
(*                                                                         *)
(* lim.running, lim.queue     the fields of the class                      *)
(* lim.config                 {maxConcurrent, queueLimit}                  *)
(* lim.ops[i]                 the i-th execute() call: the state of its    *)
(*                            promise, how often its operation was invoked *)
(*                            and its resolve or reject called, and the    *)
(*                            token it was given (0: none)                 *)
(* lim.tokens[t]              CancellationTokenImpl: _isCancelled and the  *)
(*                            registered callbacks (the queued op each     *)
(*                            callback closes over)                        *)
(***************************************************************************)
NoToken == 0
Tokens == {1, 2}
OpIds == 1..MaxOps

NewOp ==
  [status |-> "new", invoked |-> 0, settles |-> 0, token |-> NoToken, reason |-> "none"]

LimiterInit(maxConcurrent, queueLimit) ==
  [ config  |-> [maxConcurrent |-> maxConcurrent, queueLimit |-> queueLimit],
    running |-> 0,
    queue   |-> << >>,
    n       |-> 0,
    ops     |-> [i \in OpIds |-> NewOp],
    tokens  |-> [t \in Tokens |-> [isCancelled |-> FALSE, callbacks |-> << >>]] ]

IsCancelledTok(L, tok) == tok # NoToken /\ L.tokens[tok].isCancelled

Settle(L, op, status, reason) ==
  IF L.ops[op].status \in {"resolved", "rejected"}
  THEN [L EXCEPT !.ops[op].settles = @ + 1]
  ELSE [L EXCEPT !.ops[op].status = status, !.ops[op].reason = reason,
                 !.ops[op].settles = @ + 1]

\* execute(): "if (this.running < this.config.maxConcurrent)"
HasFreeSlotOffByOne(L) == L.running <= L.config.maxConcurrent
HasFreeSlot(L) == L.running < L.config.maxConcurrent

\* execute(): "if (this.queue.length >= this.config.queueLimit)"
QueueIsFullOffByOne(L) == Len(L.queue) > L.config.queueLimit
QueueIsFull(L) == Len(L.queue) >= L.config.queueLimit

\* executeImmediate() up to its await: running++, the cancellation check,
\* the call of the operation.  The result says whether the operation is now
\* in flight; when it is not, the finally block has still to run.
StartOp(L, op) ==
  LET L1 == [L EXCEPT !.running = @ + 1] IN
  IF IsCancelledTok(L1, L1.ops[op].token)
  THEN [L |-> Settle(L1, op, "rejected", "cancelled"), inflight |-> FALSE]
  ELSE [L |-> [L1 EXCEPT !.ops[op].status = "running", !.ops[op].invoked = @ + 1],
        inflight |-> TRUE]

\* finally { this.running--; this.processQueue() } with processQueue() and the
\* executeImmediate() it calls for the next queued operation.
RECURSIVE ReleaseSlot(_)
ReleaseSlotOnly(L) == [L EXCEPT !.running = @ - 1]
ReleaseSlotLifo(L) ==
  LET L1 == [L EXCEPT !.running = @ - 1] IN
  IF ~HasFreeSlot(L1) \/ Len(L1.queue) = 0 THEN L1
  ELSE LET nextOp == L1.queue[Len(L1.queue)]
           L2 == [L1 EXCEPT !.queue = SubSeq(@, 1, Len(@) - 1)]
           r  == StartOp(L2, nextOp)
       IN IF r.inflight THEN r.L ELSE ReleaseSlot(r.L)
ReleaseSlot(L) ==
  LET L1 == [L EXCEPT !.running = @ - 1] IN
  IF ~HasFreeSlot(L1) \/ Len(L1.queue) = 0 THEN L1
  ELSE LET nextOp == Head(L1.queue)
           L2 == [L1 EXCEPT !.queue = Tail(@)]
           r  == StartOp(L2, nextOp)
       IN IF r.inflight THEN r.L ELSE ReleaseSlot(r.L)

ExecuteImmediate(L, op) ==
  LET r == StartOp(L, op) IN IF r.inflight THEN r.L ELSE ReleaseSlot(r.L)

\* CancellationTokenImpl.onCancelled(cb) for the callback execute() registers
OnCancelledQueued(L, tok, op) ==
  IF tok = NoToken THEN L
  ELSE [L EXCEPT !.tokens[tok].callbacks = Append(@, op)]

\* the callback execute() registers for a queued operation
QueuedCancelCallbackKeepsQueued(L, op) ==
  IF IndexOf(L.queue, op) >= 1 THEN Settle(L, op, "rejected", "cancelled") ELSE L
QueuedCancelCallback(L, op) ==
  LET index == IndexOf(L.queue, op) IN
  IF index >= 1
  THEN Settle([L EXCEPT !.queue = RemoveAt(@, index)], op, "rejected", "cancelled")
  ELSE L

RECURSIVE RunCallbacks(_, _)
RunCallbacks(L, cbs) ==
  IF cbs = << >> THEN L
  ELSE RunCallbacks(QueuedCancelCallback(L, Head(cbs)), Tail(cbs))

\* CancellationTokenImpl.cancel()
CancelToken(L, tok) ==
  IF L.tokens[tok].isCancelled THEN L
  ELSE LET L1 == [L EXCEPT !.tokens[tok].isCancelled = TRUE]
           L2 == RunCallbacks(L1, L1.tokens[tok].callbacks)
       IN [L2 EXCEPT !.tokens[tok].callbacks = << >>]

\* ConcurrencyLimiter.execute(operation, cancellationToken)
Execute(L, tok) ==
  LET op == L.n + 1
      L0 == [L EXCEPT !.n = op, !.ops[op].token = tok]
  IN
  IF IsCancelledTok(L0, tok) THEN Settle(L0, op, "rejected", "cancelled")
  ELSE IF HasFreeSlot(L0) THEN ExecuteImmediate(L0, op)
  ELSE IF QueueIsFull(L0) THEN Settle(L0, op, "rejected", "queue full")
  ELSE OnCancelledQueued([L0 EXCEPT !.queue = Append(@, op),
                                    !.ops[op].status = "queued"], tok, op)

\* the continuation of executeImmediate() after "await queuedOp.operation()"
CompleteOpKeepsSlotOnError(L, op, ok) ==
  IF ok THEN ReleaseSlot(Settle(L, op, "resolved", "ok"))
  ELSE Settle(L, op, "rejected", "operation error")
CompleteOp(L, op, ok) ==
  ReleaseSlot(IF ok THEN Settle(L, op, "resolved", "ok")
                    ELSE Settle(L, op, "rejected", "operation error"))

LimExecute ==
  /\ lim.n < MaxOps
  /\ \E tok \in Tokens \cup {NoToken} :
       lim' = Execute(lim, tok)
  /\ UNCHANGED <<mb, cl, ev, rt, ut>>

LimComplete ==
  /\ \E op \in OpIds, ok \in BOOLEAN :
       /\ lim.ops[op].status = "running"
       /\ lim' = CompleteOp(lim, op, ok)
  /\ UNCHANGED <<mb, cl, ev, rt, ut>>

LimCancel ==
  /\ \E tok \in Tokens :
       /\ ~lim.tokens[tok].isCancelled
       /\ lim' = CancelToken(lim, tok)
  /\ UNCHANGED <<mb, cl, ev, rt, ut>>

LimNext == LimExecute \/ LimComplete \/ LimCancel

(***************************************************************************)
(* BoundedQueue / MessageBuffer  (utils/bounded-queue.ts)                  *)
(*                                                                         *)
(* A buffer is the record [items, droppedCount, totalBytes, onDrop]:       *)
(* items, droppedCount and totalBytes are the fields of the classes and    *)
(* onDrop lists the items handed to config.onDrop so far.  An item is      *)
(* [id, len, ser]: len is the length of JSON.stringify(item) and ser says  *)
(* whether JSON.stringify succeeds on it.                                  *)
(***************************************************************************)
FallbackSize == 100
DefaultMaxBytes == 1048576

Strategies == {"oldest", "newest", "reject"}

\* MessageBuffer.estimateSize
estimateSize(item) == IF item.ser THEN item.len * 2 ELSE FallbackSize

RECURSIVE HeldBytes(_)
HeldBytes(items) ==
  IF items = << >> THEN 0 ELSE estimateSize(Head(items)) + HeldBytes(Tail(items))

NewBuffer == [items |-> << >>, droppedCount |-> 0, totalBytes |-> 0, onDrop |-> << >>]

BufConfig(maxSize, dropStrategy, maxBytes) ==
  [maxSize |-> maxSize, dropStrategy |-> dropStrategy, maxBytes |-> maxBytes]

isEmpty(B) == Len(B.items) = 0

isFull(B, cfg) == Len(B.items) >= cfg.maxSize

\* BoundedQueue.enqueue: the buffer after the call and the value returned
BQenqueue(B, cfg, item) ==
  IF Len(B.items) < cfg.maxSize
  THEN [B |-> [B EXCEPT !.items = Append(@, item)], ret |-> TRUE]
  ELSE IF cfg.dropStrategy = "oldest"
  THEN IF B.items = << >>
       THEN \* shift() of an empty array is undefined: nothing counted
            [B |-> [B EXCEPT !.items = <<item>>], ret |-> TRUE]
       ELSE [B |-> [B EXCEPT !.items = Append(Tail(@), item),
                             !.droppedCount = @ + 1,
                             !.onDrop = Append(@, Head(B.items))],
             ret |-> TRUE]
  ELSE IF cfg.dropStrategy = "newest"
  THEN [B |-> [B EXCEPT !.droppedCount = @ + 1, !.onDrop = Append(@, item)],
        ret |-> FALSE]
  ELSE [B |-> B, ret |-> FALSE]

\* BoundedQueue.dequeue
BQdequeueNewest(B) ==
  IF B.items = << >> THEN B ELSE [B EXCEPT !.items = SubSeq(@, 1, Len(@) - 1)]
BQdequeue(B) ==
  IF B.items = << >> THEN B ELSE [B EXCEPT !.items = Tail(@)]

\* BoundedQueue.clear
BQclear(B) == [B EXCEPT !.items = << >>]

\* BoundedQueue.drain (MessageBuffer does not override it)
drain(B) == [B EXCEPT !.items = << >>]

\* BoundedQueue.peek: the id of items[0], 0 for undefined
peek(B) == IF B.items = << >> THEN 0 ELSE B.items[1].id

\* BoundedQueue.toArray and the iterator: the ids of the items, in array order
toArray(B) == [i \in 1..Len(B.items) |-> B.items[i].id]

\* BoundedQueue.resetDroppedCount
resetDroppedCount(B) == [B EXCEPT !.droppedCount = 0]

\* MessageBuffer.dequeue
MBdequeue(B) ==
  IF B.items = << >> THEN B
  ELSE [BQdequeue(B) EXCEPT !.totalBytes = @ - estimateSize(Head(B.items))]

\* MessageBuffer.clear
MBclear(B) == [BQclear(B) EXCEPT !.totalBytes = 0]

\* the while loop of MessageBuffer.enqueue: this.dequeue() is the overriding
\* MessageBuffer.dequeue, and the loop body subtracts the size once more
RECURSIVE MakeRoom(_, _, _)
MakeRoom(B, cfg, itemSize) ==
  IF ~isEmpty(B) /\ B.totalBytes + itemSize > cfg.maxBytes
  THEN LET dropped == Head(B.items)
           B1 == MBdequeue(B)
       IN MakeRoom([B1 EXCEPT !.totalBytes = @ - estimateSize(dropped)], cfg, itemSize)
  ELSE B

\* MessageBuffer.enqueue
MBenqueue(B, cfg, item) ==
  LET itemSize == estimateSize(item)
      B1 == IF B.totalBytes + itemSize > cfg.maxBytes /\ ~isEmpty(B)
            THEN MakeRoom(B, cfg, itemSize) ELSE B
      r  == BQenqueue(B1, cfg, item)
  IN IF r.ret THEN [B |-> [r.B EXCEPT !.totalBytes = @ + itemSize], ret |-> TRUE]
     ELSE r

\* ---- a MessageBuffer driven by its public methods ----------------------
ItemLens == {1, 2, 3}
MaxBytesChoices == {4, 8}

ItemKinds == [len : ItemLens, ser : {TRUE}] \cup {[len |-> 0, ser |-> FALSE]}

MbEnqueue ==
  /\ mb.n < MaxBufOps
  /\ \E k \in ItemKinds :
       LET item == [id |-> mb.n + 1, len |-> k.len, ser |-> k.ser]
           r == MBenqueue(mb.buf, mb.config, item)
       IN /\ mb' = [mb EXCEPT !.buf = r.B, !.n = @ + 1]
          /\ ev' = Event("enqueue", item, r.ret)
  /\ UNCHANGED <<lim, cl, rt, ut>>

MbDequeue ==
  /\ mb' = [mb EXCEPT !.buf = MBdequeue(@)]
  /\ ev' = Event("dequeue", 0, IF isEmpty(mb.buf) THEN 0 ELSE Head(mb.buf.items).id)
  /\ UNCHANGED <<lim, cl, rt, ut>>

MbClear ==
  /\ mb' = [mb EXCEPT !.buf = MBclear(@)]
  /\ ev' = Event("clear", 0, 0)
  /\ UNCHANGED <<lim, cl, rt, ut>>

MbDrain ==
  /\ mb' = [mb EXCEPT !.buf = drain(@)]
  /\ ev' = Event("drain", 0, toArray(mb.buf))
  /\ UNCHANGED <<lim, cl, rt, ut>>

MbPeek ==
  /\ ev' = Event("peek", 0, peek(mb.buf))
  /\ UNCHANGED <<lim, mb, cl, rt, ut>>

MbToArray ==
  /\ ev' = Event("toArray", 0, toArray(mb.buf))
  /\ UNCHANGED <<lim, mb, cl, rt, ut>>

MbResetDroppedCount ==
  /\ mb' = [mb EXCEPT !.buf = resetDroppedCount(@)]
  /\ ev' = Event("resetDroppedCount", 0, mb.buf.droppedCount)
  /\ UNCHANGED <<lim, cl, rt, ut>>

MbNext ==
  \/ MbEnqueue \/ MbDequeue \/ MbClear \/ MbDrain
  \/ MbPeek \/ MbToArray \/ MbResetDroppedCount

(***************************************************************************)
(* WSClient  (client/ws-client.ts) with withRetry and sleep (utils/retry.ts)*)
(*                                                                         *)
(* cl.state, cl.ws, cl.reconnectAttempt, cl.reconnectTimer,                *)
(* cl.heartbeatTimer, cl.messageBuffer, cl.lastSeq                         *)
(*                     the fields of the class; ws is the index of the     *)
(*                     transport it references, 0 for null; the timers are *)
(*                     TRUE while the field holds a timer id               *)
(* cl.cancelled        cancellationToken.isCancelled (the token is created *)
(*                     in the constructor and nowhere else)                *)
(* cl.statics          whether the class installed as global.WebSocket     *)
(*                     defines CONNECTING, OPEN, CLOSING and CLOSED; the   *)
(*                     MockWebSocket the tests install does not, and then  *)
(*                     every readyState and WebSocket.OPEN are undefined   *)
(* cl.transports[t]    the t-th "new WebSocket": its readyState, the       *)
(*                     withRetry loop whose attempt created it (0: the     *)
(*                     reconnect timer), the state of the promise of that  *)
(*                     attemptConnection() call                            *)
(* cl.tasks            the setTimeout(..., 0) callbacks of the transports  *)
(*                     that have not run yet, in the order they were set:  *)
(*                     each runs one handler of one transport              *)
(* cl.loops[k]         the withRetry loop of the k-th connect() call that  *)
(*                     passed the state guard: where it is suspended, its  *)
(*                     attempt counter, the transport it awaits            *)
(* cl.leaked           setInterval timers no field references any more     *)
(* cl.wire             the envelopes handed to the send() of a transport   *)
(* cl.constructed      the seq of every envelope send() constructed        *)
(* cl.stateTrace       the arguments of the onStateChange calls            *)
(* cl.sends            send() calls so far                                 *)
(* cl.simulated        simulateOpen/Error/Close calls so far               *)
(***************************************************************************)
WSBufferMaxSize == 1000

\* the defaults of the constructor
DefaultReconnectDelay == 1000
DefaultMaxReconnectDelay == 30000

\* Lengths are characters of JSON.stringify(envelope) and sizes are bytes:
\* the envelope of a heartbeat has about 110 characters
HeartbeatLen == 110

NoTransport == 0
TimerOwner == 0

States == {"disconnected", "connecting", "connected", "reconnecting", "failed"}

\* WSClientConfig; heartbeatInterval is TRUE for a positive interval
WSConfig(url, reconnect, maxAttempts, delay, maxDelay, heartbeat, maxMessageSize, maxBufferSize) ==
  [ url |-> url,
    reconnect |-> reconnect, maxReconnectAttempts |-> maxAttempts,
    reconnectDelay |-> delay, maxReconnectDelay |-> maxDelay,
    heartbeatInterval |-> heartbeat, maxMessageSize |-> maxMessageSize,
    maxBufferSize |-> maxBufferSize ]

\* the value of WebSocket.CONNECTING, WebSocket.OPEN or WebSocket.CLOSED
readyStateConstant(C, name) == IF C.statics THEN name ELSE "undefined"

\* new WebSocket(url) throws a SyntaxError on a url it cannot parse; the
\* MockWebSocket of the tests, the class without the readyState constants,
\* takes any url
InvalidUrl == "not a url"
constructorThrows(C) == C.statics /\ C.config.url = InvalidUrl

\* WSClient.constructor, with the WebSocket class of the environment
NewClient(config, statics) ==
  [ config |-> config, statics |-> statics,
    state |-> "disconnected", ws |-> NoTransport,
    reconnectAttempt |-> 0, reconnectTimer |-> FALSE, heartbeatTimer |-> FALSE,
    messageBuffer |-> NewBuffer, cancelled |-> FALSE, lastSeq |-> 0,
    transports |-> << >>, loops |-> << >>, leaked |-> 0,
    wire |-> << >>, constructed |-> << >>, stateTrace |-> << >>, sends |-> 0,
    tasks |-> << >>, simulated |-> 0 ]

\* the MessageBuffer the constructor builds
WSBufConfig(C) == BufConfig(WSBufferMaxSize, "oldest", C.config.maxBufferSize)

\* WSClient.setState
setState(C, newState) ==
  IF C.state # newState
  THEN [C EXCEPT !.state = newState, !.stateTrace = Append(@, newState)]
  ELSE C

\* MockWebSocket.send(message) on the referenced transport: it takes the
\* message whatever the readyState is and never throws
wsSend(C, envelope) ==
  [C EXCEPT !.wire = Append(@, [t |-> C.ws, seq |-> envelope.id])]

\* this.ws?.readyState
wsReadyState(C) ==
  IF C.ws = NoTransport THEN "undefined" ELSE C.transports[C.ws].rs

\* the seq send() gives the envelope it constructs: ++this.lastSeq
NextSeqStale(C) == C.lastSeq
NextSeq(C) == C.lastSeq + 1

\* WSClient.send: the client after the call and the value returned.  len is
\* the length of JSON.stringify(envelope); ser is FALSE when JSON.stringify
\* throws on the envelope (data with a circular reference)
send(C, len, ser) ==
  LET seq == NextSeq(C)
      envelope == [id |-> seq, len |-> len, ser |-> ser]
      C1 == [C EXCEPT !.lastSeq = seq, !.constructed = Append(@, seq), !.sends = @ + 1]
  IN
  IF C.state # "connected" \/ C.ws = NoTransport
  THEN LET r == MBenqueue(C1.messageBuffer, WSBufConfig(C1), envelope)
       IN [C |-> [C1 EXCEPT !.messageBuffer = r.B], ret |-> r.ret,
           path |-> "buffer", onError |-> FALSE]
  ELSE IF ~ser
  THEN [C |-> C1, ret |-> FALSE, path |-> "unserializable", onError |-> TRUE]
  ELSE IF len > C.config.maxMessageSize
  THEN [C |-> C1, ret |-> FALSE, path |-> "too large", onError |-> TRUE]
  ELSE [C |-> wsSend(C1, envelope), ret |-> TRUE, path |-> "sent", onError |-> FALSE]

\* WSClient.startHeartbeat: the field is overwritten without clearInterval
startHeartbeat(C) ==
  IF ~C.config.heartbeatInterval THEN C
  ELSE [C EXCEPT !.heartbeatTimer = TRUE,
                 !.leaked = IF C.heartbeatTimer THEN @ + 1 ELSE @]

\* WSClient.stopHeartbeat
stopHeartbeat(C) == [C EXCEPT !.heartbeatTimer = FALSE]

\* WSClient.clearTimers
clearTimers(C) == stopHeartbeat([C EXCEPT !.reconnectTimer = FALSE])

\* WSClient.flushBufferedMessages: a message dequeued while
\* this.ws?.readyState differs from WebSocket.OPEN is not sent and the loop
\* goes on.  When the two are equal and this.ws is null (both undefined),
\* this.ws.send throws a TypeError; when JSON.stringify throws on the
\* dequeued message, likewise: the catch block breaks out of the loop and
\* the rest stays buffered
RECURSIVE flushBufferedMessages(_)
flushBufferedMessages(C) ==
  IF isEmpty(C.messageBuffer) THEN C
  ELSE LET message == Head(C.messageBuffer.items)
           C1 == [C EXCEPT !.messageBuffer = MBdequeue(@)]
       IN IF wsReadyState(C1) = readyStateConstant(C1, "open")
          THEN IF C1.ws = NoTransport \/ ~message.ser THEN C1
               ELSE flushBufferedMessages(wsSend(C1, message))
          ELSE flushBufferedMessages(C1)

\* withRetry's catch block after attempt number `attempt` of loop k failed:
\* the last attempt ends the loop, else sleep(delay, token) is awaited, which
\* rejects at once when the token is cancelled
retryCatch(C, k, attempt) ==
  IF attempt = C.config.maxReconnectAttempts - 1
  THEN [C EXCEPT !.loops[k].pc = "rejected", !.loops[k].reason = "exhausted"]
  ELSE IF C.cancelled
  THEN [C EXCEPT !.loops[k].pc = "rejected", !.loops[k].reason = "cancelled"]
  ELSE [C EXCEPT !.loops[k].pc = "sleeping"]

\* the executor of attemptConnection(): this.ws = new WebSocket(url), whose
\* readyState starts as WebSocket.CONNECTING.  When the constructor throws,
\* the catch block rejects the promise: no transport exists and this.ws
\* keeps its value
attemptConnection(C, owner) ==
  IF constructorThrows(C) THEN C
  ELSE [C EXCEPT !.transports = Append(@, [rs |-> readyStateConstant(C, "connecting"),
                                           owner |-> owner, promise |-> "pending"]),
                 !.ws = Len(C.transports) + 1]

\* one iteration of withRetry's for loop, for loop k, up to its await
retryAttempt(C, k, attempt) ==
  LET C1 == [C EXCEPT !.loops[k].attempt = attempt] IN
  IF attempt >= C.config.maxReconnectAttempts
  THEN [C1 EXCEPT !.loops[k].pc = "rejected", !.loops[k].reason = "exhausted"]
  ELSE IF C1.cancelled THEN retryCatch(C1, k, attempt)
  ELSE IF constructorThrows(C1)
  THEN retryCatch(attemptConnection(C1, k), k, attempt)
  ELSE [attemptConnection(C1, k) EXCEPT !.loops[k].pc = "awaiting",
                                        !.loops[k].t = Len(C.transports) + 1]

\* resolve() of the attemptConnection() promise of transport t
resolveAttempt(C, t) ==
  IF C.transports[t].promise # "pending" THEN C
  ELSE LET k == C.transports[t].owner
           C1 == [C EXCEPT !.transports[t].promise = "resolved"]
       IN IF k # TimerOwner /\ C1.loops[k].pc = "awaiting" /\ C1.loops[k].t = t
          THEN [C1 EXCEPT !.loops[k].pc = "resolved"]
          ELSE C1

\* reject() of the attemptConnection() promise of transport t
rejectAttempt(C, t) ==
  IF C.transports[t].promise # "pending" THEN C
  ELSE LET k == C.transports[t].owner
           C1 == [C EXCEPT !.transports[t].promise = "rejected"]
       IN IF k # TimerOwner /\ C1.loops[k].pc = "awaiting" /\ C1.loops[k].t = t
          THEN retryCatch(C1, k, C1.loops[k].attempt)
          ELSE C1

\* WSClient.scheduleReconnect
scheduleReconnect(C) ==
  IF C.reconnectTimer THEN C
  ELSE IF C.cancelled THEN C
  ELSE IF C.state \in {"connected", "connecting"} THEN C
  ELSE [setState(C, "reconnecting") EXCEPT !.reconnectAttempt = @ + 1,
                                           !.reconnectTimer = TRUE]

\* a send() issued by the application from inside a callback
callbackSend(C, doSend, len) ==
  IF doSend /\ C.sends < MaxSends THEN send(C, len, TRUE).C ELSE C

\* ws.onopen.  cb names the callback from which the application calls
\* send(): "stateChange" (onStateChange), "connect" (onConnect) or "none"
onopen(C, t, cb, len) ==
  LET C1 == setState(C, "connected")
      C2 == callbackSend(C1, cb = "stateChange" /\ C.state # "connected", len)
      C3 == [C2 EXCEPT !.reconnectAttempt = 0]
      C4 == startHeartbeat(C3)
      C5 == flushBufferedMessages(C4)
      C6 == callbackSend(C5, cb = "connect", len)
  IN resolveAttempt(C6, t)

\* ws.onclose
onclose(C, t) ==
  LET C1 == stopHeartbeat([C EXCEPT !.ws = NoTransport]) IN
  IF C1.cancelled THEN setState(C1, "disconnected")
  ELSE IF C1.config.reconnect /\ C1.reconnectAttempt < C1.config.maxReconnectAttempts
  THEN scheduleReconnect(C1)
  ELSE rejectAttempt(setState(C1, "failed"), t)

\* ws.onerror
onerror(C, t) == rejectAttempt(C, t)

\* the setTimeout callback of scheduleReconnect
reconnectTimerCallback(C) ==
  LET C1 == [C EXCEPT !.reconnectTimer = FALSE] IN
  IF ~C1.cancelled /\ C1.state = "reconnecting"
  THEN attemptConnection(C1, TimerOwner) ELSE C1

\* WSClient.connect, for a call that passes the state guard
connect(C) ==
  LET k == Len(C.loops) + 1
      C1 == setState(C, "connecting")
      C2 == [C1 EXCEPT !.reconnectAttempt = 0,
                       !.loops = Append(@, [pc |-> "start", attempt |-> 0,
                                            t |-> NoTransport, reason |-> "none"])]
  IN retryAttempt(C2, k, 0)

\* cancellationToken.cancel(): the callbacks registered by pending sleeps
cancel(C) ==
  IF C.cancelled THEN C
  ELSE [C EXCEPT !.cancelled = TRUE,
                 !.loops = [k \in DOMAIN C.loops |->
                              IF C.loops[k].pc = "sleeping"
                              THEN [C.loops[k] EXCEPT !.pc = "rejected",
                                                      !.reason = "cancelled"]
                              ELSE C.loops[k]]]

\* a setTimeout(..., 0) of transport t whose callback runs its handler
Task(t, event) == [t |-> t, event |-> event]

\* MockWebSocket.close(): readyState is assigned in the call, the onclose
\* handler runs in a later timer task
wsClose(C, t) ==
  [C EXCEPT !.transports[t].rs = readyStateConstant(C, "closed"),
            !.tasks = Append(@, Task(t, "close"))]

\* MockWebSocket.simulateOpen(): readyState is assigned in the call, the
\* onopen handler runs in a later timer task
simulateOpen(C, t) ==
  [C EXCEPT !.transports[t].rs = readyStateConstant(C, "open"),
            !.tasks = Append(@, Task(t, "open"))]

\* MockWebSocket.simulateError(): readyState is left alone, the onerror
\* handler runs in a later timer task
simulateError(C, t) == [C EXCEPT !.tasks = Append(@, Task(t, "error"))]

\* MockWebSocket.simulateClose(): readyState is assigned in the call, the
\* onclose handler runs in a later timer task
simulateClose(C, t) ==
  [C EXCEPT !.transports[t].rs = readyStateConstant(C, "closed"),
            !.tasks = Append(@, Task(t, "close"))]

\* the timer task at the head of the queue is the one of transport t for
\* the given event; the client once the task has left the queue
taskIsDue(C, t, event) == C.tasks # << >> /\ Head(C.tasks) = Task(t, event)
taskTaken(C) == [C EXCEPT !.tasks = Tail(@)]

\* WSClient.disconnect
disconnect(C) ==
  LET C1 == clearTimers(cancel(C))
      C2 == IF C1.ws # NoTransport
            THEN [wsClose(C1, C1.ws) EXCEPT !.ws = NoTransport] ELSE C1
  IN setState(C2, "disconnected")

\* ---- the client driven by the application, the transports and the timers
MsgLens == {110, 330}
MaxMessageSizes == {220}
MaxBufferSizes == {440, 1048576}
Urls == {"ws://localhost/ws", InvalidUrl}
ReconnectDelays ==
  { [reconnectDelay |-> DefaultReconnectDelay, maxReconnectDelay |-> DefaultMaxReconnectDelay],
    [reconnectDelay |-> 100, maxReconnectDelay |-> 1000] }
Callbacks == {"none", "stateChange", "connect"}
EnvelopeKinds == [len : MsgLens, ser : {TRUE}] \cup {[len |-> 0, ser |-> FALSE]}

WsConnect ==
  /\ IF cl.state \in {"connected", "connecting"}
     THEN cl' = cl
     ELSE /\ Len(cl.loops) < MaxConnects
          /\ Len(cl.transports) < MaxTransports
          /\ cl' = connect(cl)
  /\ UNCHANGED <<lim, mb, ev, rt, ut>>

WsDisconnect ==
  /\ cl' = disconnect(cl)
  /\ UNCHANGED <<lim, mb, ev, rt, ut>>

WsSend ==
  /\ cl.sends < MaxSends
  /\ \E e \in EnvelopeKinds : cl' = send(cl, e.len, e.ser).C
  /\ UNCHANGED <<lim, mb, ev, rt, ut>>

\* a setInterval timer of startHeartbeat fires.  The runtime orders timers
\* by the time they are due: an interval that is overdue fires before a
\* 0 ms timer task set after it was due, so the step waits for no task
WsHeartbeat ==
  /\ cl.heartbeatTimer \/ cl.leaked > 0
  /\ cl.sends < MaxSends
  /\ cl' = send(cl, HeartbeatLen, TRUE).C
  /\ UNCHANGED <<lim, mb, ev, rt, ut>>

\* The transport is driven as the MockWebSocket of the tests is: by calls of
\* simulateOpen(), simulateError() and simulateClose() on any instance, in
\* any order and any readyState.  A call returns at once; the handler runs
\* in a timer task, and connect(), disconnect(), send() and further
\* simulate calls may come between the two.
WsSimulateOpen ==
  /\ cl.simulated < MaxSimulated
  /\ \E t \in DOMAIN cl.transports :
       cl' = [simulateOpen(cl, t) EXCEPT !.simulated = @ + 1]
  /\ UNCHANGED <<lim, mb, ev, rt, ut>>

WsSimulateError ==
  /\ cl.simulated < MaxSimulated
  /\ \E t \in DOMAIN cl.transports :
       cl' = [simulateError(cl, t) EXCEPT !.simulated = @ + 1]
  /\ UNCHANGED <<lim, mb, ev, rt, ut>>

WsSimulateClose ==
  /\ cl.simulated < MaxSimulated
  /\ \E t \in DOMAIN cl.transports :
       cl' = [simulateClose(cl, t) EXCEPT !.simulated = @ + 1]
  /\ UNCHANGED <<lim, mb, ev, rt, ut>>

\* the timer task of simulateOpen(): this.onopen?.(event)
WsTransportOpen ==
  /\ \E t \in DOMAIN cl.transports, cb \in Callbacks, len \in MsgLens :
       /\ taskIsDue(cl, t, "open")
       /\ cl' = onopen(taskTaken(cl), t, cb, len)
  /\ UNCHANGED <<lim, mb, ev, rt, ut>>

\* the timer task of simulateError(): this.onerror?.(event).  The handler
\* returns to the event loop and the reactions to the rejected promise run
WsTransportFail ==
  /\ \E t \in DOMAIN cl.transports :
       /\ taskIsDue(cl, t, "error")
       /\ cl' = onerror(taskTaken(cl), t)
  /\ UNCHANGED <<lim, mb, ev, rt, ut>>

\* the timer task of simulateClose() or close(): this.onclose?.(event)
WsTransportClose ==
  /\ \E t \in DOMAIN cl.transports :
       /\ taskIsDue(cl, t, "close")
       /\ cl' = onclose(taskTaken(cl), t)
  /\ UNCHANGED <<lim, mb, ev, rt, ut>>

\* the backoff sleep of a withRetry loop elapses: its next attempt.  As the
\* heartbeat, an overdue sleep ends before a 0 ms timer task set later
WsRetryWake ==
  /\ \E k \in DOMAIN cl.loops :
       /\ cl.loops[k].pc = "sleeping"
       /\ Len(cl.transports) < MaxTransports
       /\ cl' = retryAttempt(cl, k, cl.loops[k].attempt + 1)
  /\ UNCHANGED <<lim, mb, ev, rt, ut>>

\* The setTimeout callback of scheduleReconnect never runs: scheduleReconnect
\* returns early in every state onclose can call it in (see ReconnectIsDead),
\* so no timer is ever set and the next-state relation has no timer action.
WsNext ==
  \/ WsConnect \/ WsDisconnect \/ WsSend \/ WsHeartbeat
  \/ WsSimulateOpen \/ WsSimulateError \/ WsSimulateClose
  \/ WsTransportOpen \/ WsTransportFail \/ WsTransportClose \/ WsRetryWake


(***************************************************************************)
(* withRetry, sleep, calculateBackoffDelay  (utils/retry.ts)               *)
(*                                                                         *)
(* rt is one withRetry(operation, config, token) call:                     *)
(* rt.config       finalConfig                                             *)
(* rt.hasToken     whether a cancellation token was passed                 *)
(* rt.cancelled    token.isCancelled                                       *)
(* rt.pc           idle: not called yet; operation: suspended at           *)
(*                 "await operation()"; sleeping: suspended at             *)
(*                 "await sleep(...)"; resolved / rejected: settled        *)
(* rt.attempt      the loop variable                                       *)
(* rt.invoked      calls of operation() so far                             *)
(* rt.failures     calls of operation() that failed so far                 *)
(* rt.sleeps       calls of sleep() so far                                 *)
(* rt.delay        the delay of the last sleep() call                      *)
(* rt.lastError    the local of that name                                  *)
(* rt.result       the value or error the promise settled with             *)
(* rt.cause        the cause property of that error                        *)
(*                                                                         *)
(* A thrown value is [kind, id, wrapped, attempts]: id is the invocation   *)
(* that threw it (0 when withRetry, the token or sleep made it), wrapped   *)
(* marks "new Error(String(error))" and attempts is the number in the      *)
(* message of a RetryableError.  Delays are multiples of 8 ms so that the  *)
(* jitter arithmetic is exact; Math.random() is random / 4.                *)
(***************************************************************************)
ErrorKinds == {"Error", "NonRetryableError", "value"}
Randoms == 0..3

NoError == [kind |-> "none", id |-> 0, wrapped |-> FALSE, attempts |-> 0]

Thrown(kind, id) == [NoError EXCEPT !.kind = kind, !.id = id]

Min(a, b) == IF a < b THEN a ELSE b
Max(a, b) == IF a > b THEN a ELSE b

RECURSIVE Pow(_, _)
Pow(b, n) == IF n = 0 THEN 1 ELSE b * Pow(b, n - 1)

RetryConfig(maxAttempts, initialDelay, maxDelay, backoffMultiplier, jitter) ==
  [maxAttempts |-> maxAttempts, initialDelay |-> initialDelay, maxDelay |-> maxDelay,
   backoffMultiplier |-> backoffMultiplier, jitter |-> jitter]

\* calculateBackoffDelay(attempt, config) when Math.random() returns random / 4
calculateBackoffDelay(attempt, config, random) ==
  LET delay0 == config.initialDelay * Pow(config.backoffMultiplier, attempt)
      delay1 == Min(delay0, config.maxDelay)
      jitterRange == delay1 \div 4
      delay2 == IF config.jitter
                THEN delay1 + ((2 * random - 4) * jitterRange) \div 4
                ELSE delay1
  IN Max(0, delay2)

NewRetry(config, hasToken) ==
  [ config |-> config, hasToken |-> hasToken, cancelled |-> FALSE,
    pc |-> "idle", attempt |-> 0, invoked |-> 0, failures |-> 0, sleeps |-> 0,
    delay |-> 0, lastError |-> NoError, result |-> NoError, cause |-> NoError ]

\* "throw e" out of withRetry: the promise rejects with e
RetryReject(R, e) == [R EXCEPT !.pc = "rejected", !.result = e]

\* the statement after the loop
ThrowExhausted(R) ==
  [RetryReject(R, [NoError EXCEPT !.kind = "RetryableError",
                                  !.attempts = R.config.maxAttempts])
     EXCEPT !.cause = R.lastError]

\* sleep(ms, token) as awaited by withRetry
sleep(R, ms) ==
  LET R1 == [R EXCEPT !.sleeps = @ + 1, !.delay = ms] IN
  IF R1.hasToken /\ R1.cancelled
  THEN RetryReject(R1, Thrown("Error", 0))
  ELSE [R1 EXCEPT !.pc = "sleeping"]

\* "error instanceof Error ? error : new Error(String(error))"
AsError(e) == IF e.kind = "value" THEN [e EXCEPT !.kind = "Error", !.wrapped = TRUE] ELSE e

\* the catch block of withRetry
RetryCatchRetriesNonRetryable(R, e, random) ==
  LET R1 == [R EXCEPT !.lastError = AsError(e)] IN
  IF R1.attempt = R1.config.maxAttempts - 1 THEN ThrowExhausted(R1)
  ELSE sleep(R1, calculateBackoffDelay(R1.attempt, R1.config, random))
RetryCatchSleepsAfterLast(R, e, random) ==
  LET R1 == [R EXCEPT !.lastError = AsError(e)] IN
  IF e.kind = "NonRetryableError" THEN RetryReject(R1, e)
  ELSE sleep(R1, calculateBackoffDelay(R1.attempt, R1.config, random))
RetryCatch(R, e, random) ==
  LET R1 == [R EXCEPT !.lastError = AsError(e)] IN
  IF e.kind = "NonRetryableError" THEN RetryReject(R1, e)
  ELSE IF R1.attempt = R1.config.maxAttempts - 1 THEN ThrowExhausted(R1)
  ELSE sleep(R1, calculateBackoffDelay(R1.attempt, R1.config, random))

\* one iteration of the for loop up to its await: the loop test,
\* throwIfCancelled() inside the try block, the call of operation()
RetryIterate(R, random) ==
  IF ~(R.attempt < R.config.maxAttempts) THEN ThrowExhausted(R)
  ELSE IF R.hasToken /\ R.cancelled
  THEN RetryCatch(R, Thrown("CancellationError", 0), random)
  ELSE [R EXCEPT !.pc = "operation", !.invoked = @ + 1]

\* the call withRetry(operation, config, token)
withRetry(R, random) == RetryIterate([R EXCEPT !.attempt = 0], random)

\* "return await operation()" when the operation resolves
OperationResolved(R) ==
  [R EXCEPT !.pc = "resolved", !.result = Thrown("value", R.invoked)]

\* ... and when it throws or rejects with a value of the given kind
OperationRejected(R, kind, random) ==
  RetryCatch([R EXCEPT !.failures = @ + 1], Thrown(kind, R.invoked), random)

\* the timer of sleep() fires: the loop continues with attempt++
SleepElapsed(R, random) == RetryIterate([R EXCEPT !.attempt = @ + 1], random)

\* token.cancel(): the callback sleep() registered rejects a pending sleep
RetryCancel(R) ==
  LET R1 == [R EXCEPT !.cancelled = TRUE] IN
  IF R.pc = "sleeping" THEN RetryReject(R1, Thrown("Error", 0)) ELSE R1

InitialDelays == {8}
MaxDelays == {8, 16, 64}
Multipliers == {2}

RtCall ==
  /\ rt.pc = "idle"
  /\ \E random \in Randoms : rt' = withRetry(rt, random)
  /\ UNCHANGED <<lim, mb, cl, ev, ut>>

RtOperationResolves ==
  /\ rt.pc = "operation"
  /\ rt' = OperationResolved(rt)
  /\ UNCHANGED <<lim, mb, cl, ev, ut>>

RtOperationRejects ==
  /\ rt.pc = "operation"
  /\ \E kind \in ErrorKinds, random \in Randoms :
       rt' = OperationRejected(rt, kind, random)
  /\ UNCHANGED <<lim, mb, cl, ev, ut>>

RtSleepElapses ==
  /\ rt.pc = "sleeping"
  /\ \E random \in Randoms : rt' = SleepElapsed(rt, random)
  /\ UNCHANGED <<lim, mb, cl, ev, ut>>

RtCancel ==
  /\ rt.hasToken /\ ~rt.cancelled
  /\ rt' = RetryCancel(rt)
  /\ UNCHANGED <<lim, mb, cl, ev, ut>>

RtNext ==
  \/ RtCall \/ RtOperationResolves \/ RtOperationRejects \/ RtSleepElapses \/ RtCancel

(***************************************************************************)
(* CancellationTokenImpl  (utils/cancellation.ts)                          *)
(*                                                                         *)
(* ut.tok.isCancelled   _isCancelled                                       *)
(* ut.tok.callbacks     _callbacks: the registered callbacks, each named   *)
(*                      by the number of its onCancelled() call            *)
(* ut.tok.n             onCancelled() calls so far                         *)
(* ut.tok.kinds[c]      what callback c does when invoked: it returns, it  *)
(*                      throws, it calls cancel() on the token, or it      *)
(*                      registers a further callback on the token          *)
(* ut.tok.log           the callbacks invoked so far, in order             *)
(* ut.tok.warned        console.warn calls (a callback's exception caught) *)
(* ut.tok.threw         whether cancel() or onCancelled() let an exception *)
(*                      escape to its caller                               *)
(***************************************************************************)
CallbackKinds == {"returns", "throws", "cancels", "registers"}

NewToken ==
  [ isCancelled |-> FALSE, callbacks |-> << >>, n |-> 0, kinds |-> << >>,
    log |-> << >>, warned |-> 0, threw |-> FALSE ]

RECURSIVE TokenCancel(_)
RECURSIVE TokenOnCancelled(_, _)
RECURSIVE TokenInvoke(_, _)
RECURSIVE RunTokenCallbacks(_, _)

\* "try { callback() } catch (error) { console.warn(...) }"
TryCallbackNoCatch(T, c) ==
  LET r == TokenInvoke(T, c) IN
  IF r.threw THEN [T |-> [r.T EXCEPT !.threw = TRUE], abort |-> TRUE]
  ELSE [T |-> r.T, abort |-> FALSE]
TryCallback(T, c) ==
  LET r == TokenInvoke(T, c) IN
  IF r.threw THEN [T |-> [r.T EXCEPT !.warned = @ + 1], abort |-> FALSE]
  ELSE [T |-> r.T, abort |-> FALSE]

\* the call of callback c: the token after it and whether it threw
TokenInvoke(T, c) ==
  LET T1 == [T EXCEPT !.log = Append(@, c)]
      kind == T.kinds[c]
  IN IF kind = "throws" THEN [T |-> T1, threw |-> TRUE]
     ELSE IF kind = "cancels" THEN [T |-> TokenCancel(T1), threw |-> FALSE]
     ELSE IF kind = "registers" /\ T1.n < MaxCallbacks
     THEN [T |-> TokenOnCancelled(T1, "returns"), threw |-> FALSE]
     ELSE [T |-> T1, threw |-> FALSE]

\* the for loop of cancel() over the callbacks cbs still to run
RunTokenCallbacks(T, cbs) ==
  IF cbs = << >> THEN T
  ELSE LET r == TryCallback(T, Head(cbs))
       IN IF r.abort THEN r.T ELSE RunTokenCallbacks(r.T, Tail(cbs))

\* CancellationTokenImpl.cancel
TokenCancel(T) ==
  IF T.isCancelled THEN T
  ELSE LET T1 == [T EXCEPT !.isCancelled = TRUE]
           T2 == RunTokenCallbacks(T1, T1.callbacks)
       IN IF T2.threw THEN T2 ELSE [T2 EXCEPT !.callbacks = << >>]

\* CancellationTokenImpl.onCancelled(callback), callback of the given kind
TokenOnCancelled(T, kind) ==
  LET c  == T.n + 1
      T1 == [T EXCEPT !.n = c, !.kinds = Append(@, kind)]
  IN IF T1.isCancelled THEN TryCallback(T1, c).T
     ELSE [T1 EXCEPT !.callbacks = Append(@, c)]

TkCancel ==
  /\ ut' = [ut EXCEPT !.tok = TokenCancel(@)]
  /\ UNCHANGED core

TkOnCancelled ==
  /\ ut.tok.n < MaxCallbacks
  /\ \E kind \in CallbackKinds : ut' = [ut EXCEPT !.tok = TokenOnCancelled(@, kind)]
  /\ UNCHANGED core

TkNext == TkCancel \/ TkOnCancelled

(***************************************************************************)
(* Semaphore  (utils/concurrency-fixed.ts)                                 *)
(*                                                                         *)
(* ut.sem.permits      the field                                           *)
(* ut.sem.waitQueue    the field: the suspended acquire() calls, each      *)
(*                     named by its number                                 *)
(* ut.sem.acquired[a]  whether the promise of the a-th acquire() call has  *)
(*                     resolved                                            *)
(* ut.sem.releases, ut.sem.tries, ut.sem.taken                             *)
(*                     release() calls, tryAcquire() calls and those of    *)
(*                     them that returned true                             *)
(***************************************************************************)
NewSemaphore(permits) ==
  [ permits |-> permits, waitQueue |-> << >>, acquired |-> << >>,
    releases |-> 0, tries |-> 0, taken |-> 0 ]

\* Semaphore.acquire
acquire(S) ==
  IF S.permits > 0
  THEN [S EXCEPT !.permits = @ - 1, !.acquired = Append(@, TRUE)]
  ELSE [S EXCEPT !.waitQueue = Append(@, Len(S.acquired) + 1),
                 !.acquired = Append(@, FALSE)]

\* Semaphore.release
releaseAlwaysIncrements(S) ==
  LET S1 == [S EXCEPT !.releases = @ + 1, !.permits = @ + 1] IN
  IF Len(S.waitQueue) > 0
  THEN [S1 EXCEPT !.waitQueue = Tail(@), !.acquired[Head(S.waitQueue)] = TRUE]
  ELSE S1
release(S) ==
  LET S1 == [S EXCEPT !.releases = @ + 1] IN
  IF Len(S.waitQueue) > 0
  THEN [S1 EXCEPT !.waitQueue = Tail(@), !.acquired[Head(S.waitQueue)] = TRUE]
  ELSE [S1 EXCEPT !.permits = @ + 1]

\* Semaphore.tryAcquire
tryAcquire(S) ==
  LET S1 == [S EXCEPT !.tries = @ + 1] IN
  IF S.permits > 0
  THEN [S1 EXCEPT !.permits = @ - 1, !.taken = @ + 1]
  ELSE S1

SmAcquire ==
  /\ Len(ut.sem.acquired) < MaxSemCalls
  /\ ut' = [ut EXCEPT !.sem = acquire(@)]
  /\ UNCHANGED core

SmRelease ==
  /\ ut.sem.releases < MaxSemCalls
  /\ ut' = [ut EXCEPT !.sem = release(@)]
  /\ UNCHANGED core

SmTryAcquire ==
  /\ ut.sem.tries < MaxSemCalls
  /\ ut' = [ut EXCEPT !.sem = tryAcquire(@)]
  /\ UNCHANGED core

SmNext == SmAcquire \/ SmRelease \/ SmTryAcquire

(***************************************************************************)
(* RateLimiter  (utils/throttle.ts)                                        *)
(*                                                                         *)
(* ut.rl.maxHz      the field: the constructor argument clamped to 2..10   *)
(* ut.rl.calls      the field: the recorded timestamps                     *)
(* ut.rl.now        Date.now(), in ms; it never goes back                  *)
(* ut.rl.arg        the constructor argument                               *)
(* ut.rl.allowed    the times of the isAllowed() calls that returned true  *)
(*                  since construction or the last reset()                 *)
(* ut.rl.n, ut.rl.ret   isAllowed() calls so far; what the last returned   *)
(***************************************************************************)
MinHz == 2
MaxHz == 10
WindowMs == 1000

ClampHz(maxHz) == Max(MinHz, Min(MaxHz, maxHz))

NewRateLimiter(maxHz) ==
  [ maxHz |-> ClampHz(maxHz), calls |-> << >>, now |-> 0, arg |-> maxHz,
    allowed |-> << >>, n |-> 0, ret |-> FALSE ]

\* "now - time < this.windowMs"
InWindowInclusive(now, time) == now - time <= WindowMs
InWindow(now, time) == now - time < WindowMs

\* RateLimiter.isAllowed
isAllowed(R) ==
  LET recent == SelectSeq(R.calls, LAMBDA time : InWindow(R.now, time))
      R1 == [R EXCEPT !.calls = recent, !.n = @ + 1]
  IN IF Len(recent) < R.maxHz
     THEN [R1 EXCEPT !.calls = Append(@, R.now), !.allowed = Append(@, R.now),
                     !.ret = TRUE]
     ELSE [R1 EXCEPT !.ret = FALSE]

\* RateLimiter.reset
reset(R) == [R EXCEPT !.calls = << >>, !.allowed = << >>]

MaxHzArgs == {1, 2, 3, 11}
TimeSteps == {250, 500}

RlIsAllowed ==
  /\ ut.rl.n < MaxRlCalls
  /\ ut' = [ut EXCEPT !.rl = isAllowed(@)]
  /\ UNCHANGED core

RlReset ==
  /\ ut' = [ut EXCEPT !.rl = reset(@)]
  /\ UNCHANGED core

RlTick ==
  /\ \E d \in TimeSteps :
       /\ ut.rl.now + d <= MaxNow
       /\ ut' = [ut EXCEPT !.rl.now = @ + d]
  /\ UNCHANGED core

RlNext == RlIsAllowed \/ RlReset \/ RlTick

(***************************************************************************)
(* createThrottler  (utils/throttle.ts)                                    *)
(*                                                                         *)
(* ut.th.leading, ut.th.trailing, ut.th.interval   the configuration       *)
(* ut.th.lastExecution, ut.th.timeoutId, ut.th.lastArgs                    *)
(*                    the variables of the closure; timeoutId is TRUE      *)
(*                    while it holds a timer id, lastArgs is 0 for null    *)
(* ut.th.timers       the due times of the timers that are set and neither *)
(*                    fired nor cleared                                    *)
(* ut.th.now          Date.now(); it starts beyond the longest interval,   *)
(*                    as a clock that counts from 1970 does                *)
(* ut.th.n            calls of the throttled function so far; the n-th     *)
(*                    call passes the arguments n                          *)
(* ut.th.executions   the arguments of the executions of fn, in order      *)
(***************************************************************************)
NewThrottler(maxHz, leading, trailing) ==
  [ leading |-> leading, trailing |-> trailing,
    interval |-> WindowMs \div ClampHz(maxHz),
    lastExecution |-> 0, timeoutId |-> FALSE, lastArgs |-> 0,
    timers |-> << >>, now |-> WindowMs, n |-> 0, executions |-> << >> ]

\* A setTimeout callback runs when the clock of the timers has reached the
\* time it was set for.  That clock and Date.now() are rounded to the
\* millisecond independently: the callback may run when Date.now() is
\* still TimerEarly ms short of that time
TimerEarly == 1
timerMayRun(due, now) == due <= now + TimerEarly

\* execute(args)
execute(H, args) ==
  [H EXCEPT !.lastExecution = H.now, !.executions = Append(@, args)]

\* throttled(...args), the n-th call
throttledKeepsPendingArgs(H) ==
  LET args == H.n + 1
      timeSinceLastExecution == H.now - H.lastExecution
      H1 == [H EXCEPT !.n = args, !.lastArgs = IF H.timeoutId THEN @ ELSE args]
  IN IF H.leading /\ timeSinceLastExecution >= H.interval
     THEN execute(H1, args)
     ELSE IF H.trailing /\ ~H.timeoutId
     THEN LET remainingTime == H.interval - timeSinceLastExecution
          IN [H1 EXCEPT !.timeoutId = TRUE,
                        !.timers = Append(@, H.now + Max(0, remainingTime))]
     ELSE H1
throttled(H) ==
  LET args == H.n + 1
      timeSinceLastExecution == H.now - H.lastExecution
      H1 == [H EXCEPT !.n = args, !.lastArgs = args]
  IN IF H.leading /\ timeSinceLastExecution >= H.interval
     THEN execute(H1, args)
     ELSE IF H.trailing /\ ~H.timeoutId
     THEN LET remainingTime == H.interval - timeSinceLastExecution
          IN [H1 EXCEPT !.timeoutId = TRUE,
                        !.timers = Append(@, H.now + Max(0, remainingTime))]
     ELSE H1

\* the setTimeout callback of throttled, for the i-th live timer
throttleTimer(H, i) ==
  LET H1 == [H EXCEPT !.timers = RemoveAt(@, i), !.timeoutId = FALSE]
  IN IF H1.lastArgs # 0
     THEN [execute(H1, H1.lastArgs) EXCEPT !.lastArgs = 0]
     ELSE H1

\* throttled.cancel(): clearTimeout(timeoutId) clears the one timer the
\* variable references, the one set last
throttledCancel(H) ==
  IF H.timeoutId
  THEN [H EXCEPT !.timers = SubSeq(@, 1, Len(@) - 1), !.timeoutId = FALSE,
                 !.lastArgs = 0]
  ELSE H

ThMaxHzArgs == {1, 5}
ThTimeSteps == {99, 100, 250}

ThCall ==
  /\ ut.th.n < MaxThCalls
  /\ ut' = [ut EXCEPT !.th = throttled(@)]
  /\ UNCHANGED core

ThTimer ==
  /\ \E i \in 1..Len(ut.th.timers) :
       /\ timerMayRun(ut.th.timers[i], ut.th.now)
       /\ ut' = [ut EXCEPT !.th = throttleTimer(@, i)]
  /\ UNCHANGED core

ThCancel ==
  /\ ut' = [ut EXCEPT !.th = throttledCancel(@)]
  /\ UNCHANGED core

ThTick ==
  /\ \E d \in ThTimeSteps :
       /\ ut.th.now + d <= MaxThNow
       /\ ut' = [ut EXCEPT !.th.now = @ + d]
  /\ UNCHANGED core

ThNext == ThCall \/ ThTimer \/ ThCancel \/ ThTick

(***************************************************************************)
(* ValueSmoother  (utils/throttle.ts)                                      *)
(*                                                                         *)
(* ut.vs.lastValue, ut.vs.lastUpdate, ut.vs.minInterval,                   *)
(* ut.vs.pendingTimeout                                                    *)
(*                    the fields; lastValue is 0 for undefined and         *)
(*                    pendingTimeout is TRUE while it holds a timer id     *)
(* ut.vs.timers       the timers that are set and neither fired nor        *)
(*                    cleared: the due time and the value the callback     *)
(*                    closes over                                          *)
(* ut.vs.now          Date.now()                                           *)
(* ut.vs.n            shouldEmit() calls so far; the n-th call offers the  *)
(*                    value n                                              *)
(* ut.vs.ret          what the last shouldEmit() returned                  *)
(***************************************************************************)
NewSmoother(maxHz) ==
  [ lastValue |-> 0, lastUpdate |-> 0, minInterval |-> WindowMs \div ClampHz(maxHz),
    pendingTimeout |-> FALSE, timers |-> << >>, now |-> 0, n |-> 0, ret |-> FALSE ]

\* ValueSmoother.shouldEmit(value, forceEmit), the n-th call
shouldEmit(V, forceEmit) ==
  LET value == V.n + 1
      timeSinceLastUpdate == V.now - V.lastUpdate
      V1 == [V EXCEPT !.n = value]
  IN IF forceEmit \/ V.lastValue = 0
     THEN [V1 EXCEPT !.lastValue = value, !.lastUpdate = V.now, !.ret = TRUE]
     ELSE IF timeSinceLastUpdate >= V.minInterval
     THEN [V1 EXCEPT !.lastValue = value, !.lastUpdate = V.now, !.ret = TRUE]
     ELSE IF ~V.pendingTimeout
     THEN [V1 EXCEPT !.pendingTimeout = TRUE,
                     !.timers = Append(@, [due |-> V.now + (V.minInterval - timeSinceLastUpdate),
                                           value |-> value]),
                     !.ret = FALSE]
     ELSE [V1 EXCEPT !.ret = FALSE]

\* the setTimeout callback of shouldEmit, for the i-th live timer
smootherTimer(V, i) ==
  [V EXCEPT !.timers = RemoveAt(@, i), !.pendingTimeout = FALSE,
            !.lastValue = V.timers[i].value, !.lastUpdate = V.now]

\* ValueSmoother.cancel
smootherCancel(V) ==
  IF V.pendingTimeout
  THEN [V EXCEPT !.timers = SubSeq(@, 1, Len(@) - 1), !.pendingTimeout = FALSE]
  ELSE V

VsShouldEmit ==
  /\ ut.vs.n < MaxVsCalls
  /\ \E forceEmit \in BOOLEAN : ut' = [ut EXCEPT !.vs = shouldEmit(@, forceEmit)]
  /\ UNCHANGED core

VsTimer ==
  /\ \E i \in 1..Len(ut.vs.timers) :
       /\ timerMayRun(ut.vs.timers[i].due, ut.vs.now)
       /\ ut' = [ut EXCEPT !.vs = smootherTimer(@, i)]
  /\ UNCHANGED core

VsCancel ==
  /\ ut' = [ut EXCEPT !.vs = smootherCancel(@)]
  /\ UNCHANGED core

VsTick ==
  /\ \E d \in ThTimeSteps :
       /\ ut.vs.now + d <= MaxThNow
       /\ ut' = [ut EXCEPT !.vs.now = @ + d]
  /\ UNCHANGED core

VsNext == VsShouldEmit \/ VsTimer \/ VsCancel \/ VsTick

(***************************************************************************)
(* WorkerChannel  (worker/worker-channel.ts)                               *)
(*                                                                         *)
(* ut.wc.nextId, ut.wc.pendingRequests, ut.wc.isShutdown                   *)
(*                    the fields; pendingRequests is the set of its keys   *)
(* ut.wc.reqs[id]     the request sendMessage gave the id: its type, its   *)
(*                    token (0 for none), whether its setTimeout timer is  *)
(*                    set and neither fired nor cleared, when it is due,   *)
(*                    how often resolve or reject of its promise has been  *)
(*                    called, and how the promise settled                  *)
(* ut.wc.posted       the messages worker.postMessage accepted             *)
(* ut.wc.answered     the ids the worker has responded to                  *)
(* ut.wc.terminated   worker.terminate() has been called                   *)
(* ut.wc.cancelled    the tokens that are cancelled                        *)
(* ut.wc.now          the clock of the timers                              *)
(* ut.wc.ret          how the last call of the public interface returned:  *)
(*                    "sent" (a pending promise), or the error it threw    *)
(***************************************************************************)
DefaultTimeoutMs == 5000

NewChannel ==
  [ nextId |-> 1, pendingRequests |-> {}, isShutdown |-> FALSE,
    reqs |-> << >>, posted |-> << >>, answered |-> {}, terminated |-> FALSE,
    cancelled |-> {}, now |-> 0, ret |-> "none" ]

\* resolve(...) or reject(...) of the promise of request id; only the first
\* call settles it
settlePromise(W, id, outcome) ==
  [W EXCEPT !.reqs[id].settles = @ + 1,
            !.reqs[id].outcome = IF @ = "pending" THEN outcome ELSE @]

\* clearTimeout(request.timeout)
clearRequestTimeout(W, id) == [W EXCEPT !.reqs[id].timer = FALSE]

\* WorkerChannel.sendMessage; postThrows: worker.postMessage throws
sendMessage(W, type, token, postThrows) ==
  IF W.isShutdown THEN [W EXCEPT !.ret = "Worker is shutdown"]
  ELSE IF token # NoToken /\ token \in W.cancelled
  THEN [W EXCEPT !.ret = "CancellationError"]
  ELSE
    LET id == W.nextId
        W1 == [W EXCEPT !.nextId = @ + 1,
                        !.reqs = Append(@, [type |-> type, token |-> token, timer |-> TRUE,
                                            due |-> W.now + DefaultTimeoutMs,
                                            settles |-> 0, outcome |-> "pending"]),
                        !.pendingRequests = @ \cup {id},
                        !.ret = "sent"]
    IN IF postThrows
       THEN settlePromise(clearRequestTimeout(
              [W1 EXCEPT !.pendingRequests = @ \ {id}], id), id, "post error")
       ELSE [W1 EXCEPT !.posted = Append(@, [type |-> type, id |-> id])]

\* WorkerChannel.initialize
initialize(W, postThrows) == sendMessage(W, "INIT", NoToken, postThrows)

\* WorkerChannel.computeProgress
computeProgress(W, token, postThrows) ==
  IF W.isShutdown THEN [W EXCEPT !.ret = "Worker is shutdown"]
  ELSE sendMessage(W, "COMPUTE_PROGRESS", token, postThrows)

\* WorkerChannel.computeETA
computeETA(W, token, postThrows) ==
  IF W.isShutdown THEN [W EXCEPT !.ret = "Worker is shutdown"]
  ELSE sendMessage(W, "COMPUTE_ETA", token, postThrows)

\* the setTimeout callback of sendMessage for request id
requestTimeout(W, id) ==
  settlePromise([W EXCEPT !.pendingRequests = @ \ {id}, !.reqs[id].timer = FALSE],
                id, "timeout")

\* the onCancelled callback sendMessage registered for request id
requestCancelled(W, id) ==
  IF id \in W.pendingRequests
  THEN settlePromise(clearRequestTimeout(
         [W EXCEPT !.pendingRequests = @ \ {id}], id), id, "cancelled")
  ELSE W

\* token.cancel(): the callbacks of the requests sent with it, in the order
\* of registration, from request id on
RECURSIVE rejectAllPending(_, _, _)
RECURSIVE channelTokenCallbacks(_, _, _)
channelTokenCallbacks(W, token, id) ==
  IF id > Len(W.reqs) THEN W
  ELSE channelTokenCallbacks(
         IF W.reqs[id].token = token THEN requestCancelled(W, id) ELSE W, token, id + 1)

channelTokenCancelRejectsAll(W, token) ==
  IF token \in W.cancelled THEN W
  ELSE [rejectAllPending([W EXCEPT !.cancelled = @ \cup {token}], 1, "cancelled")
          EXCEPT !.pendingRequests = {}]

channelTokenCancel(W, token) ==
  IF token \in W.cancelled THEN W
  ELSE channelTokenCallbacks([W EXCEPT !.cancelled = @ \cup {token}], token, 1)

handleMessageKeepsTimer(W, id, error) ==
  IF id \notin W.pendingRequests THEN W
  ELSE settlePromise([W EXCEPT !.pendingRequests = @ \ {id}], id,
                     IF error THEN "response error" ELSE "resolved")

\* WorkerChannel.handleMessage
handleMessage(W, id, error) ==
  IF id \notin W.pendingRequests THEN W
  ELSE settlePromise(clearRequestTimeout(
         [W EXCEPT !.pendingRequests = @ \ {id}], id), id,
         IF error THEN "response error" ELSE "resolved")

\* the loop of handleError and of shutdown over the pending requests, from
\* request id on: clearTimeout and reject
rejectAllPending(W, id, outcome) ==
  IF id > Len(W.reqs) THEN W
  ELSE rejectAllPending(
         IF id \in W.pendingRequests
         THEN settlePromise(clearRequestTimeout(W, id), id, outcome) ELSE W,
         id + 1, outcome)

\* WorkerChannel.handleError
handleError(W) ==
  [rejectAllPending(W, 1, "worker error") EXCEPT !.pendingRequests = {}]

\* WorkerChannel.shutdown up to its await: the SHUTDOWN message goes through
\* sendMessage after isShutdown has been set, so the awaited promise is
\* already rejected; the call returns to its caller suspended at the await
shutdown(W, postThrows) ==
  IF W.isShutdown THEN W
  ELSE LET W1 == [W EXCEPT !.isShutdown = TRUE]
           W2 == [rejectAllPending(W1, 1, "shutdown") EXCEPT !.pendingRequests = {}]
           W3 == sendMessage(W2, "SHUTDOWN", NoToken, postThrows)
       IN [W3 EXCEPT !.ret = W.ret]

\* a shutdown() call is suspended at its await: isShutdown is set by
\* shutdown() alone and a second call returns at the guard
shutdownSuspended(W) == W.isShutdown /\ ~W.terminated

\* the continuation of shutdown() after the await: the rejection is caught
\* and ignored, then this.worker.terminate()
shutdownResume(W) == [W EXCEPT !.terminated = TRUE]

RequestTokens == {NoToken, 1, 2}
WcTimeSteps == {4999, 5000}

WcInitialize ==
  /\ ut.wc.nextId <= MaxRequests
  /\ \E postThrows \in BOOLEAN : ut' = [ut EXCEPT !.wc = initialize(@, postThrows)]
  /\ UNCHANGED core

WcComputeProgress ==
  /\ ut.wc.nextId <= MaxRequests
  /\ \E token \in RequestTokens, postThrows \in BOOLEAN :
       ut' = [ut EXCEPT !.wc = computeProgress(@, token, postThrows)]
  /\ UNCHANGED core

WcComputeETA ==
  /\ ut.wc.nextId <= MaxRequests
  /\ \E token \in RequestTokens, postThrows \in BOOLEAN :
       ut' = [ut EXCEPT !.wc = computeETA(@, token, postThrows)]
  /\ UNCHANGED core

\* the worker responds to a message it was posted
WcResponse ==
  /\ ~ut.wc.terminated /\ ~shutdownSuspended(ut.wc)
  /\ \E i \in 1..Len(ut.wc.posted), error \in BOOLEAN :
       /\ ut.wc.posted[i].id \notin ut.wc.answered
       /\ ut' = [ut EXCEPT !.wc = [handleMessage(@, ut.wc.posted[i].id, error)
                                     EXCEPT !.answered = @ \cup {ut.wc.posted[i].id}]]
  /\ UNCHANGED core

WcTimeout ==
  /\ ~shutdownSuspended(ut.wc)
  /\ \E id \in 1..Len(ut.wc.reqs) :
       /\ ut.wc.reqs[id].timer
       /\ timerMayRun(ut.wc.reqs[id].due, ut.wc.now)
       /\ ut' = [ut EXCEPT !.wc = requestTimeout(@, id)]
  /\ UNCHANGED core

WcTokenCancel ==
  /\ \E token \in RequestTokens \ {NoToken} :
       ut' = [ut EXCEPT !.wc = channelTokenCancel(@, token)]
  /\ UNCHANGED core

WcWorkerError ==
  /\ ~ut.wc.terminated /\ ~shutdownSuspended(ut.wc)
  /\ ut' = [ut EXCEPT !.wc = handleError(@)]
  /\ UNCHANGED core

WcShutdown ==
  /\ \E postThrows \in BOOLEAN : ut' = [ut EXCEPT !.wc = shutdown(@, postThrows)]
  /\ UNCHANGED core

\* the microtask that resumes a suspended shutdown(); the worker's messages
\* and the timers are tasks and wait until it has run
WcShutdownResume ==
  /\ shutdownSuspended(ut.wc)
  /\ ut' = [ut EXCEPT !.wc = shutdownResume(@)]
  /\ UNCHANGED core

WcTick ==
  /\ ~shutdownSuspended(ut.wc)
  /\ \E d \in WcTimeSteps :
       /\ ut.wc.now + d <= MaxWcNow
       /\ ut' = [ut EXCEPT !.wc.now = @ + d]
  /\ UNCHANGED core

WcNext ==
  \/ WcInitialize \/ WcComputeProgress \/ WcComputeETA \/ WcResponse \/ WcTimeout
  \/ WcTokenCancel \/ WcWorkerError \/ WcShutdown \/ WcShutdownResume \/ WcTick

(***************************************************************************)
(* AsyncOperation helpers  (store/helpers.ts)                              *)
(*                                                                         *)
(* ut.ao.op    an AsyncOperation value: state, data, error, startTime,     *)
(*             endTime; 0 stands for undefined (an absent property)        *)
(* ut.ao.now   Date.now(), at least 1                                      *)
(* ut.ao.last  the function that produced ut.ao.op                         *)
(***************************************************************************)
Undefined == 0

AsyncOperationStates == {"idle", "pending", "success", "error", "cancelled"}

AsyncOperation(state, data, error, startTime, endTime) ==
  [state |-> state, data |-> data, error |-> error,
   startTime |-> startTime, endTime |-> endTime]

\* a ?? b
Coalesce(a, b) == IF a = Undefined THEN b ELSE a

createAsyncOperation == AsyncOperation("idle", Undefined, Undefined, Undefined, Undefined)

createPendingOperation(startTime, now) ==
  AsyncOperation("pending", Undefined, Undefined, Coalesce(startTime, now), Undefined)

createSuccessOperation(data, startTime, now) ==
  AsyncOperation("success", data, Undefined, startTime, now)

createErrorOperation(error, startTime, now) ==
  AsyncOperation("error", Undefined, error, startTime, now)

createCancelledOperation(startTime, now) ==
  AsyncOperation("cancelled", Undefined, Undefined, startTime, now)

\* updateOperationState(operation, newState, data, error) when Date.now()
\* returns now
updateOperationState(operation, newState, data, error, now) ==
  IF newState = "pending"
  THEN [operation EXCEPT !.state = "pending",
                         !.startTime = Coalesce(operation.startTime, now),
                         !.data = Undefined, !.error = Undefined, !.endTime = Undefined]
  ELSE IF newState = "success"
  THEN [operation EXCEPT !.state = "success", !.data = data,
                         !.error = Undefined, !.endTime = now]
  ELSE IF newState = "error"
  THEN [operation EXCEPT !.state = "error", !.error = error,
                         !.data = Undefined, !.endTime = now]
  ELSE IF newState = "cancelled"
  THEN [operation EXCEPT !.state = "cancelled", !.endTime = now]
  ELSE [operation EXCEPT !.state = newState]

isTerminalState(state) == state \in {"success", "error", "cancelled"}

\* asyncOperationReducer(state, action): suffix is what action.type ends with
asyncOperationReducer(state, suffix, payload, now) ==
  IF suffix = "/pending" THEN updateOperationState(state, "pending", Undefined, Undefined, now)
  ELSE IF suffix = "/fulfilled"
  THEN updateOperationState(state, "success", payload, Undefined, now)
  ELSE IF suffix = "/rejected"
  THEN updateOperationState(state, "error", Undefined, payload, now)
  ELSE IF suffix = "/cancelled"
  THEN updateOperationState(state, "cancelled", Undefined, Undefined, now)
  ELSE state

NewAsync == [op |-> createAsyncOperation, now |-> 1, last |-> "createidle"]

Payloads == {Undefined, 1}
ActionSuffixes == {"/pending", "/fulfilled", "/rejected", "/cancelled", "/other"}

AoCreate ==
  /\ \E startTime \in {Undefined, ut.ao.now}, payload \in Payloads :
       \E op \in {createAsyncOperation,
                  createPendingOperation(startTime, ut.ao.now),
                  createSuccessOperation(payload, startTime, ut.ao.now),
                  createErrorOperation(1, startTime, ut.ao.now),
                  createCancelledOperation(startTime, ut.ao.now)} :
         ut' = [ut EXCEPT !.ao.op = op, !.ao.last = "create" \o op.state]
  /\ UNCHANGED core

AoUpdate ==
  /\ \E newState \in AsyncOperationStates, data \in Payloads, error \in Payloads :
       ut' = [ut EXCEPT !.ao.op = updateOperationState(@, newState, data, error, ut.ao.now),
                        !.ao.last = "updateOperationState"]
  /\ UNCHANGED core

AoReduce ==
  /\ \E suffix \in ActionSuffixes, payload \in Payloads :
       ut' = [ut EXCEPT !.ao.op = asyncOperationReducer(@, suffix, payload, ut.ao.now),
                        !.ao.last = "asyncOperationReducer"]
  /\ UNCHANGED core

AoTick ==
  /\ ut.ao.now < MaxAoNow
  /\ ut' = [ut EXCEPT !.ao.now = @ + 1]
  /\ UNCHANGED core

AoNext == AoCreate \/ AoUpdate \/ AoReduce \/ AoTick

(***************************************************************************)
(* Initial states and specifications                                       *)
(***************************************************************************)
LimConfigs == (1..MaxConcurrentBound) \X (0..QueueLimitBound)

LimIdle == LimiterInit(1, 0)
MbIdle == [config |-> BufConfig(1, "oldest", DefaultMaxBytes), buf |-> NewBuffer, n |-> 0]
ClIdle ==
  NewClient(WSConfig("ws://localhost/ws", TRUE, 1, DefaultReconnectDelay,
                     DefaultMaxReconnectDelay, TRUE, 220, DefaultMaxBytes), TRUE)
NoEvent == Event("init", 0, 0)
RtIdle == NewRetry(RetryConfig(1, 8, 8, 2, FALSE), FALSE)
UtIdle == [tok |-> NewToken, sem |-> NewSemaphore(1),
           rl |-> NewRateLimiter(2),
           th |-> NewThrottler(5, TRUE, TRUE),
           vs |-> NewSmoother(5),
           wc |-> NewChannel, ao |-> NewAsync]

InitLimiter ==
  /\ \E c \in LimConfigs : lim = LimiterInit(c[1], c[2])
  /\ mb = MbIdle /\ cl = ClIdle /\ ev = NoEvent /\ rt = RtIdle /\ ut = UtIdle

InitBuffer ==
  /\ \E maxSize \in 0..MaxSizeBound, s \in Strategies, maxBytes \in MaxBytesChoices :
       mb = [config |-> BufConfig(maxSize, s, maxBytes), buf |-> NewBuffer, n |-> 0]
  /\ lim = LimIdle /\ cl = ClIdle /\ ev = NoEvent /\ rt = RtIdle /\ ut = UtIdle

\* the delays other than the defaults are combined with one configuration,
\* that of the reconnection tests; the url no WebSocket constructor parses
\* is given to the class whose constructor parses it
TestConfig(url, reconnect, hb, maxBuf) ==
  url # InvalidUrl /\ reconnect /\ hb /\ maxBuf = DefaultMaxBytes

InitClient ==
  /\ \E url \in Urls, reconnect \in BOOLEAN, maxAttempts \in 1..MaxAttemptsBound,
        d \in ReconnectDelays, hb \in BOOLEAN,
        maxMsg \in MaxMessageSizes, maxBuf \in MaxBufferSizes, statics \in BOOLEAN :
       /\ d.reconnectDelay = DefaultReconnectDelay \/ TestConfig(url, reconnect, hb, maxBuf)
       /\ statics \/ url # InvalidUrl
       /\ cl = NewClient(WSConfig(url, reconnect, maxAttempts, d.reconnectDelay,
                                  d.maxReconnectDelay, hb, maxMsg, maxBuf), statics)
  /\ lim = LimIdle /\ mb = MbIdle /\ ev = NoEvent /\ rt = RtIdle /\ ut = UtIdle

InitRetry ==
  /\ \E maxAttempts \in 1..MaxRetryAttempts, initialDelay \in InitialDelays,
        maxDelay \in MaxDelays, m \in Multipliers, jitter \in BOOLEAN,
        hasToken \in BOOLEAN :
       rt = NewRetry(RetryConfig(maxAttempts, initialDelay, maxDelay, m, jitter), hasToken)
  /\ lim = LimIdle /\ mb = MbIdle /\ cl = ClIdle /\ ev = NoEvent /\ ut = UtIdle

CoreIdle == lim = LimIdle /\ mb = MbIdle /\ cl = ClIdle /\ ev = NoEvent /\ rt = RtIdle

InitToken == ut = UtIdle /\ CoreIdle

InitSemaphore ==
  /\ \E permits \in 0..MaxPermits : ut = [UtIdle EXCEPT !.sem = NewSemaphore(permits)]
  /\ CoreIdle

InitRateLimiter ==
  /\ \E maxHz \in MaxHzArgs : ut = [UtIdle EXCEPT !.rl = NewRateLimiter(maxHz)]
  /\ CoreIdle

InitThrottler ==
  /\ \E maxHz \in ThMaxHzArgs, leading \in BOOLEAN, trailing \in BOOLEAN :
       ut = [UtIdle EXCEPT !.th = NewThrottler(maxHz, leading, trailing)]
  /\ CoreIdle

InitSmoother ==
  /\ \E maxHz \in ThMaxHzArgs : ut = [UtIdle EXCEPT !.vs = NewSmoother(maxHz)]
  /\ CoreIdle

InitChannel == ut = UtIdle /\ CoreIdle

InitAsync == ut = UtIdle /\ CoreIdle

SpecLimiter == InitLimiter /\ [][LimNext]_vars
\* the running operations keep completing
SpecLimiterFair == SpecLimiter /\ WF_vars(LimComplete)
SpecBuffer == InitBuffer /\ [][MbNext]_vars
SpecClient == InitClient /\ [][WsNext]_vars
\* every timer task that is set runs, and every backoff sleep elapses
SpecClientFair ==
  /\ SpecClient
  /\ WF_vars(WsTransportOpen) /\ WF_vars(WsTransportFail)
  /\ WF_vars(WsTransportClose) /\ WF_vars(WsRetryWake)
SpecRetry == InitRetry /\ [][RtNext]_vars
SpecToken == InitToken /\ [][TkNext]_vars
SpecSemaphore == InitSemaphore /\ [][SmNext]_vars
SpecRateLimiter == InitRateLimiter /\ [][RlNext]_vars
SpecThrottler == InitThrottler /\ [][ThNext]_vars
SpecSmoother == InitSmoother /\ [][VsNext]_vars
SpecChannel == InitChannel /\ [][WcNext]_vars
SpecAsync == InitAsync /\ [][AoNext]_vars

(***************************************************************************)
(* C1  ConcurrencyLimiter: in every reachable state the number of running  *)
(* operations is at most maxConcurrent and the number of queued operations *)
(* is at most queueLimit.  running and queue are the counters of the       *)
(* class; they are compared with the operations whose promise is in flight *)
(* or waiting, so the counters cannot hold by miscounting.                 *)
(***************************************************************************)
OpsWith(status) == {op \in OpIds : lim.ops[op].status = status}

C1_LimiterBounds ==
  /\ lim.running <= lim.config.maxConcurrent
  /\ Len(lim.queue) <= lim.config.queueLimit
  /\ Cardinality(OpsWith("running")) <= lim.config.maxConcurrent
  /\ Cardinality(OpsWith("queued")) <= lim.config.queueLimit

\* both limits are reached after a queued operation was cancelled, and a
\* further execute() has been refused
C1_Witness ==
  /\ lim.running = lim.config.maxConcurrent
  /\ Len(lim.queue) = lim.config.queueLimit /\ Len(lim.queue) >= 1
  /\ \E op \in OpIds : lim.ops[op].reason = "queue full"
  /\ \E op \in OpIds : lim.ops[op].reason = "cancelled" /\ lim.ops[op].invoked = 0

(***************************************************************************)
(* C2  MessageBuffer: after any sequence of enqueue, dequeue, clear and    *)
(* drain calls, totalBytes equals the sum of the estimated sizes of the    *)
(* items currently held.                                                   *)
(***************************************************************************)
C2_TotalBytesExact == mb.buf.totalBytes = HeldBytes(mb.buf.items)

(***************************************************************************)
(* WSClient: helpers of the claims                                         *)
(***************************************************************************)
\* the step is a connect() call that passed the state guard
IsConnectStep ==
  cl.state \notin {"connected", "connecting"} /\ cl' = connect(cl)

\* the step is a disconnect() call
IsDisconnectStep == cl' = disconnect(cl)

\* the step delivers the open event of transport t
IsOpenOf(t) ==
  /\ taskIsDue(cl, t, "open")
  /\ \E cb \in Callbacks, len \in MsgLens : cl' = onopen(taskTaken(cl), t, cb, len)

IsOpenStep == \E t \in DOMAIN cl.transports : IsOpenOf(t)

\* the step delivers the close event of transport t
IsCloseOf(t) == taskIsDue(cl, t, "close") /\ cl' = onclose(taskTaken(cl), t)

IsCloseStep == \E t \in DOMAIN cl.transports : IsCloseOf(t)

\* the step runs the setTimeout callback of scheduleReconnect
IsReconnectTimerStep == cl.reconnectTimer /\ cl' = reconnectTimerCallback(cl)

AttemptsRemain == cl.config.reconnect /\ cl.reconnectAttempt < cl.config.maxReconnectAttempts

StrictlyIncreasing(s) == \A i, j \in 1..Len(s) : i < j => s[i] < s[j]

WireSeqs(C) == [i \in 1..Len(C.wire) |-> C.wire[i].seq]

BufferedSeqs(C) == {C.messageBuffer.items[i].id : i \in 1..Len(C.messageBuffer.items)}

\* scheduleReconnect never gets past its guards: the state reconnecting is
\* never entered, no reconnect timer is ever set, reconnectAttempt stays 0
ReconnectIsDead ==
  cl.state # "reconnecting" /\ ~cl.reconnectTimer /\ cl.reconnectAttempt = 0

(***************************************************************************)
(* C3  WSClient holds one connection state at a time and every state       *)
(* change is one of: disconnected->connecting on connect();                *)
(* connecting->connected when the transport opens; connecting or           *)
(* connected->reconnecting when the transport closes with reconnect        *)
(* enabled and attempts remaining; reconnecting->connecting when the       *)
(* backoff timer elapses; connecting or reconnecting->failed when the      *)
(* transport closes with reconnect disabled or attempts exhausted; any     *)
(* state->disconnected on disconnect().                                    *)
(***************************************************************************)
C3_Edge ==
  \/ cl.state = "disconnected" /\ cl'.state = "connecting" /\ IsConnectStep
  \/ cl.state = "connecting" /\ cl'.state = "connected" /\ IsOpenStep
  \/ /\ cl.state \in {"connecting", "connected"} /\ cl'.state = "reconnecting"
     /\ IsCloseStep /\ AttemptsRemain
  \/ cl.state = "reconnecting" /\ cl'.state = "connecting" /\ IsReconnectTimerStep
  \/ /\ cl.state \in {"connecting", "reconnecting"} /\ cl'.state = "failed"
     /\ IsCloseStep /\ ~AttemptsRemain
  \/ cl'.state = "disconnected" /\ IsDisconnectStep

C3_OnlyListedTransitions ==
  [][cl.state \in States /\ (cl'.state # cl.state => C3_Edge)]_vars

(***************************************************************************)
(* C4  With reconnect enabled and maxReconnectAttempts = N, when every     *)
(* connection attempt fails to open, exactly N attempts are made, the      *)
(* observed states after connect() are connecting, then (reconnecting,     *)
(* connecting) N-1 times, then failed, and the promise of connect()        *)
(* rejects.  Stated of the runs with one connect() call, no disconnect()   *)
(* and no open event, once every transport has closed, every handler has   *)
(* run and no retry is pending.  That a transport has closed is read from  *)
(* its readyState, so the runs are those of a WebSocket class that defines *)
(* the readyState constants.                                               *)
(***************************************************************************)
RECURSIVE C4_ExpectedTrace(_)
C4_ExpectedTrace(n) ==
  IF n <= 1 THEN <<"connecting">>
  ELSE C4_ExpectedTrace(n - 1) \o <<"reconnecting", "connecting">>

C4_AllAttemptsFailed ==
  /\ cl.config.reconnect /\ ~cl.cancelled /\ ~constructorThrows(cl)
  /\ Len(cl.loops) = 1 /\ cl.loops[1].pc # "sleeping"
  /\ cl.statics /\ cl.tasks = << >>
  /\ \A i \in 1..Len(cl.stateTrace) : cl.stateTrace[i] # "connected"
  /\ \A t \in DOMAIN cl.transports :
       cl.transports[t].rs = "closed" /\ cl.transports[t].promise # "resolved"

C4_FailingRun ==
  C4_AllAttemptsFailed =>
    /\ Len(cl.transports) = cl.config.maxReconnectAttempts
    /\ cl.stateTrace = C4_ExpectedTrace(cl.config.maxReconnectAttempts) \o <<"failed">>
    /\ cl.loops[1].pc = "rejected"

(***************************************************************************)
(* C5  Once the state is failed, no further connection attempt occurs (no  *)
(* new transport is opened) and the state stays failed, until connect() or *)
(* disconnect() is called.                                                 *)
(***************************************************************************)
C5_FailedIsQuiet ==
  [][(cl.state = "failed" /\ ~IsConnectStep /\ ~IsDisconnectStep)
       => (cl'.state = "failed" /\ Len(cl'.transports) = Len(cl.transports))]_vars

(***************************************************************************)
(* C6  After disconnect() the state is disconnected and the reconnect and  *)
(* heartbeat timers are cleared, and from then on no connection attempt is *)
(* made and the state stays disconnected, whichever transport events are   *)
(* delivered, until connect() is called again.                             *)
(***************************************************************************)
C6_DisconnectIsTerminal ==
  [][/\ IsDisconnectStep =>
          (cl'.state = "disconnected" /\ ~cl'.reconnectTimer /\ ~cl'.heartbeatTimer)
     /\ (cl.cancelled /\ cl.state = "disconnected" /\ ~IsConnectStep) =>
          /\ cl'.state = "disconnected"
          /\ Len(cl'.transports) = Len(cl.transports)
          /\ ~cl'.reconnectTimer /\ ~cl'.heartbeatTimer]_vars

(***************************************************************************)
(* C7  A connect() call made after disconnect() runs with a fresh,         *)
(* uncancelled cancellation token and opens a new transport (whose open    *)
(* event then leads to connected).                                         *)
(***************************************************************************)
C7_ConnectAfterDisconnect ==
  [][(cl.cancelled /\ cl.state = "disconnected" /\ IsConnectStep) =>
       /\ ~cl'.cancelled
       /\ Len(cl'.transports) = Len(cl.transports) + 1
       /\ cl'.loops[Len(cl'.loops)].pc = "awaiting"]_vars

(***************************************************************************)
(* C8  When the transport opens while the buffer is non-empty, every       *)
(* buffered envelope is transmitted, in the order of the send() calls and  *)
(* before any envelope of a send() made after the open (a send() from the  *)
(* onStateChange or onConnect callback included): the wire carries the     *)
(* envelopes in strictly increasing seq order.  The flush may stop early   *)
(* at an envelope that fails to serialize; the envelopes before it are     *)
(* the ones that must be transmitted.                                      *)
(***************************************************************************)
\* the buffered envelopes the flush reaches before one fails to serialize
C8_Flushable(C) ==
  LET items == C.messageBuffer.items
  IN {items[i].id : i \in {n \in 1..Len(items) : \A j \in 1..n : items[j].ser}}

C8_FlushKeepsOrder ==
  [][/\ StrictlyIncreasing(WireSeqs(cl'))
     /\ IsOpenStep =>
          \A q \in C8_Flushable(cl) : \E i \in 1..Len(cl'.wire) : cl'.wire[i].seq = q]_vars

(***************************************************************************)
(* C9  Every envelope constructed by send(), whether transmitted, buffered *)
(* or refused, carries a seq strictly greater than the seq of every        *)
(* envelope the client constructed earlier, across sends, disconnects and  *)
(* reconnects.                                                             *)
(***************************************************************************)
C9_SeqStrictlyIncreases ==
  /\ StrictlyIncreasing(cl.constructed)
  /\ \A i \in 1..Len(cl.wire) : \E j \in 1..Len(cl.constructed) :
       cl.wire[i].seq = cl.constructed[j]
  /\ BufferedSeqs(cl) \subseteq {cl.constructed[j] : j \in 1..Len(cl.constructed)}

\* an envelope was transmitted, the client was disconnected, and a later
\* envelope sits in the buffer
C9_Witness ==
  /\ Len(cl.constructed) = 2
  /\ Len(cl.wire) = 1 /\ cl.wire[1].seq = 1
  /\ cl.cancelled /\ cl.state = "disconnected"
  /\ BufferedSeqs(cl) = {2}

(***************************************************************************)
(* C10  send(): when the state is not connected nothing is transmitted,    *)
(* the envelope is offered to the buffer and the result is whether the     *)
(* buffer admitted it; when connected the envelope is transmitted at once  *)
(* and the result is true, except that an envelope longer than             *)
(* maxMessageSize is not transmitted, onError is invoked and the result is *)
(* false.  Stated of the envelopes JSON.stringify accepts.                 *)
(***************************************************************************)
C10_SendOutcomeOf(len) ==
  LET r == send(cl, len, TRUE)
      seq == cl.lastSeq + 1
      transmitted == r.C.wire = Append(cl.wire, [t |-> cl.ws, seq |-> seq])
  IN IF cl.state # "connected"
     THEN /\ r.C.wire = cl.wire
          /\ r.ret = (seq \in BufferedSeqs(r.C))
     ELSE IF len > cl.config.maxMessageSize
     THEN r.C.wire = cl.wire /\ r.onError /\ ~r.ret
     ELSE transmitted /\ r.ret

C10_SendOutcome ==
  [][\A len \in MsgLens \cup {HeartbeatLen} :
       (cl.sends < MaxSends /\ cl' = send(cl, len, TRUE).C) => C10_SendOutcomeOf(len)]_vars

(***************************************************************************)
(* ConcurrencyLimiter: helpers of the claims                               *)
(***************************************************************************)
\* the step is an execute() call given the token tok
IsExecuteStep(tok) == lim.n < MaxOps /\ lim' = Execute(lim, tok)

\* the step is the completion of the running operation op
IsCompleteStep(op, ok) == lim.ops[op].status = "running" /\ lim' = CompleteOp(lim, op, ok)

\* the step is the first cancel() of the token tok
IsCancelStep(tok) == ~lim.tokens[tok].isCancelled /\ lim' = CancelToken(lim, tok)

\* the underlying function of op is invoked in the step
Started(op) == lim.ops[op].invoked = 0 /\ lim'.ops[op].invoked = 1

LimiterIsFull ==
  lim.running = lim.config.maxConcurrent /\ Len(lim.queue) = lim.config.queueLimit

(***************************************************************************)
(* C11  ConcurrencyLimiter is FIFO: the queue holds the waiting operations *)
(* in the order of their execute() calls, a queued operation starts only   *)
(* when it is the head of the queue, and an operation that was not queued  *)
(* (a new execute() call) starts only when the queue is empty.             *)
(***************************************************************************)
C11_Fifo ==
  [][/\ StrictlyIncreasing(lim'.queue)
     /\ \A op \in OpIds :
          Started(op) =>
            IF lim.ops[op].status = "queued"
            THEN op = Head(lim.queue)
            ELSE lim.queue = << >>]_vars

\* maxConcurrent = 1, queueLimit = 2: the fourth call was refused because
\* the second and third were queued behind the first; the first two have
\* completed and the third is running
C11_Witness ==
  /\ lim.config.maxConcurrent = 1 /\ lim.config.queueLimit = 2
  /\ lim.ops[1].status = "resolved" /\ lim.ops[2].status = "resolved"
  /\ lim.ops[3].status = "running" /\ lim.ops[3].invoked = 1
  /\ lim.ops[4].reason = "queue full"

(***************************************************************************)
(* C12  When the token of a queued (not yet running) operation is          *)
(* cancelled, the operation is removed from the queue and its promise      *)
(* rejects with CancellationError; its function has not been invoked and   *)
(* is never invoked in any later step.                                     *)
(***************************************************************************)
C12_CancelQueued ==
  [][/\ \A tok \in Tokens :
          IsCancelStep(tok) =>
            \A op \in OpIds :
              (lim.ops[op].status = "queued" /\ lim.ops[op].token = tok) =>
                /\ IndexOf(lim'.queue, op) = 0
                /\ lim'.ops[op].status = "rejected"
                /\ lim'.ops[op].reason = "cancelled"
                /\ lim'.ops[op].invoked = 0
     /\ \A op \in OpIds :
          lim.ops[op].reason = "cancelled" =>
            /\ lim'.ops[op] = lim.ops[op]
            /\ lim.ops[op].invoked = 0
            /\ IndexOf(lim'.queue, op) = 0]_vars

\* maxConcurrent = 1, queueLimit = 1: the second call was queued (the third
\* found the queue full), its token was cancelled, and operations have
\* completed since
C12_Witness ==
  /\ lim.config.maxConcurrent = 1 /\ lim.config.queueLimit = 1
  /\ lim.ops[1].status = "resolved"
  /\ lim.ops[2].reason = "cancelled" /\ lim.ops[2].invoked = 0
  /\ lim.ops[2].token # NoToken
  /\ lim.ops[3].reason = "queue full"
  /\ lim.ops[4].status = "resolved"

(***************************************************************************)
(* C13  With maxConcurrent operations running and queueLimit queued, a     *)
(* further execute() call fails in the call itself, with the "queue full"  *)
(* error (with CancellationError when it is given a token that is already  *)
(* cancelled, which execute() checks first); its operation is not invoked, *)
(* then or later, and running, the queue and every other operation are     *)
(* unchanged.                                                              *)
(***************************************************************************)
C13_QueueFullRejects ==
  [][/\ \A tok \in Tokens \cup {NoToken} :
          (LimiterIsFull /\ IsExecuteStep(tok)) =>
            LET op == lim.n + 1 IN
            /\ lim'.ops[op].status = "rejected"
            /\ lim'.ops[op].reason =
                 IF IsCancelledTok(lim, tok) THEN "cancelled" ELSE "queue full"
            /\ lim'.ops[op].invoked = 0
            /\ lim'.running = lim.running
            /\ lim'.queue = lim.queue
            /\ \A o \in OpIds \ {op} : lim'.ops[o] = lim.ops[o]
     /\ \A op \in OpIds :
          lim.ops[op].reason = "queue full" => lim'.ops[op] = lim.ops[op]]_vars

\* the scenario of the spec: maxConcurrent = 1, queueLimit = 1, three calls,
\* the third refused while the first runs and the second waits
C13_Witness ==
  /\ lim.config.maxConcurrent = 1 /\ lim.config.queueLimit = 1
  /\ lim.n = 3
  /\ lim.ops[1].status = "running" /\ lim.ops[2].status = "queued"
  /\ lim.ops[3].status = "rejected" /\ lim.ops[3].reason = "queue full"
  /\ lim.ops[3].invoked = 0

(***************************************************************************)
(* C14  When a running operation completes, by success or by failure, its  *)
(* slot is released and the oldest queued operation (if any) is started in *)
(* the same step; the outcome is delivered to the promise of that          *)
(* operation and no other promise changes.  Consequently, when the running *)
(* operations keep completing, every queued operation leaves the queue     *)
(* (it starts, unless its token is cancelled first).                       *)
(***************************************************************************)
C14_CompletionStep ==
  \A op \in OpIds, ok \in BOOLEAN :
    IsCompleteStep(op, ok) =>
      /\ lim'.ops[op].status = (IF ok THEN "resolved" ELSE "rejected")
      /\ lim'.ops[op].reason = (IF ok THEN "ok" ELSE "operation error")
      /\ IF lim.queue = << >>
         THEN /\ lim'.running = lim.running - 1
              /\ lim'.queue = << >>
              /\ \A o \in OpIds \ {op} : lim'.ops[o] = lim.ops[o]
         ELSE LET nextOp == Head(lim.queue) IN
              /\ lim'.running = lim.running
              /\ lim'.queue = Tail(lim.queue)
              /\ lim'.ops[nextOp].status = "running"
              /\ lim'.ops[nextOp].invoked = 1
              /\ \A o \in OpIds \ {op, nextOp} : lim'.ops[o] = lim.ops[o]

C14_CompletionFreesSlot ==
  /\ [][C14_CompletionStep]_vars
  /\ \A op \in OpIds :
       (lim.ops[op].status = "queued") ~>
         (lim.ops[op].status = "running" \/ lim.ops[op].reason = "cancelled")

\* maxConcurrent = 1, queueLimit = 1: the first operation failed while the
\* second was queued (the third call found the queue full); the second runs
C14_Witness ==
  /\ lim.config.maxConcurrent = 1 /\ lim.config.queueLimit = 1
  /\ lim.ops[1].status = "rejected" /\ lim.ops[1].reason = "operation error"
  /\ lim.ops[2].status = "running" /\ lim.ops[2].invoked = 1
  /\ lim.ops[3].reason = "queue full"
  /\ lim.running = 1

(***************************************************************************)
(* C15  withRetry without cancellation: when the operation fails k <       *)
(* maxAttempts times and then succeeds it has been invoked exactly k + 1   *)
(* times (with k sleeps in between) and the promise resolves with the      *)
(* value of the last invocation; when it fails every time with retryable   *)
(* errors it is invoked exactly maxAttempts times, sleep is called exactly *)
(* maxAttempts - 1 times, and the promise rejects with a RetryableError    *)
(* whose message reports maxAttempts and whose cause is the error of the   *)
(* last invocation.                                                        *)
(***************************************************************************)
C15_RetryCounts ==
  ~rt.cancelled =>
    /\ rt.invoked <= rt.config.maxAttempts
    /\ rt.pc = "resolved" =>
         /\ rt.failures < rt.config.maxAttempts
         /\ rt.invoked = rt.failures + 1
         /\ rt.sleeps = rt.failures
         /\ rt.result = Thrown("value", rt.invoked)
    /\ (rt.pc = "rejected" /\ rt.result.kind # "NonRetryableError") =>
         /\ rt.invoked = rt.config.maxAttempts
         /\ rt.failures = rt.config.maxAttempts
         /\ rt.sleeps = rt.config.maxAttempts - 1
         /\ rt.result.kind = "RetryableError"
         /\ rt.result.attempts = rt.config.maxAttempts
         /\ rt.cause = rt.lastError
         /\ rt.cause.kind = "Error" /\ rt.cause.id = rt.invoked
         /\ ~rt.cause.wrapped => rt.cause = Thrown("Error", rt.invoked)

\* three attempts, all failed with an Error: retries exhausted
C15_Witness ==
  /\ rt.config.maxAttempts = 3 /\ ~rt.cancelled
  /\ rt.pc = "rejected" /\ rt.result.kind = "RetryableError"
  /\ rt.invoked = 3 /\ rt.sleeps = 2
  /\ rt.cause = Thrown("Error", 3)

(***************************************************************************)
(* C16  When the operation throws a NonRetryableError on any attempt,      *)
(* withRetry rejects with that same error in the same step: sleep is not   *)
(* called and the operation is not invoked again.                          *)
(***************************************************************************)
C16_NonRetryableStops ==
  [][/\ (/\ rt.pc = "operation"
         /\ \E random \in Randoms :
              rt' = OperationRejected(rt, "NonRetryableError", random)) =>
          /\ rt'.pc = "rejected"
          /\ rt'.result = Thrown("NonRetryableError", rt.invoked)
          /\ rt'.sleeps = rt.sleeps
          /\ rt'.invoked = rt.invoked
     /\ rt.result.kind = "NonRetryableError" =>
          /\ rt'.pc = "rejected" /\ rt'.result = rt.result
          /\ rt'.sleeps = rt.sleeps /\ rt'.invoked = rt.invoked]_vars

\* thrown on attempt 1 of a maxAttempts = 5 call: exactly one invocation
C16_Witness ==
  /\ rt.config.maxAttempts = 5
  /\ rt.pc = "rejected" /\ rt.result = Thrown("NonRetryableError", 1)
  /\ rt.invoked = 1 /\ rt.sleeps = 0

(***************************************************************************)
(* C17  Once the token given to withRetry is cancelled the operation is    *)
(* never invoked again, and where the cancellation is observed (by the     *)
(* call or the loop before an attempt, or by a pending backoff sleep)      *)
(* withRetry rejects in that step with a cancellation error, not with the  *)
(* "retries exhausted" RetryableError.                                     *)
(***************************************************************************)
C17_CancelStopsRetry ==
  [][/\ rt.cancelled => rt'.invoked = rt.invoked
     /\ (rt'.cancelled /\ (rt.pc = "sleeping" \/ (rt.pc = "idle" /\ rt'.pc # "idle"))) =>
          /\ rt'.pc = "rejected"
          /\ rt'.result.kind \in {"CancellationError", "Error"}
          /\ rt'.result.id = 0]_vars

(***************************************************************************)
(* C18  For every attempt and every RetryConfig, with or without jitter,   *)
(* the delay calculateBackoffDelay returns (the delay withRetry sleeps) is *)
(* at least 0 and at most maxDelay.                                        *)
(***************************************************************************)
C18_DelayWithinBounds == 0 <= rt.delay /\ rt.delay <= rt.config.maxDelay

(***************************************************************************)
(* C19  BoundedQueue and MessageBuffer: for every maxSize >= 0 and every   *)
(* dropStrategy, size() <= maxSize after any sequence of enqueue, dequeue, *)
(* clear and drain calls.                                                  *)
(***************************************************************************)
C19_SizeWithinMaxSize == Len(mb.buf.items) <= mb.config.maxSize

(***************************************************************************)
(* C20  BoundedQueue.enqueue, applied to any reachable queue: when the     *)
(* queue is not full it appends, returns true and changes no counter; when *)
(* it is full, "oldest" removes the head, appends the item, returns true,  *)
(* adds one to droppedCount and hands the removed head to onDrop;          *)
(* "newest" returns false, keeps the contents, adds one to droppedCount    *)
(* and hands the incoming item to onDrop; "reject" returns false and       *)
(* changes nothing.                                                        *)
(***************************************************************************)
C20_EnqueueOf(B, cfg, item) ==
  LET r == BQenqueue(B, cfg, item) IN
  IF ~isFull(B, cfg)
  THEN /\ r.ret
       /\ r.B = [B EXCEPT !.items = Append(@, item)]
  ELSE IF cfg.dropStrategy = "oldest"
  THEN /\ r.ret
       /\ B.items # << >>
       /\ r.B.items = Append(Tail(B.items), item)
       /\ r.B.droppedCount = B.droppedCount + 1
       /\ r.B.onDrop = Append(B.onDrop, Head(B.items))
  ELSE IF cfg.dropStrategy = "newest"
  THEN /\ ~r.ret
       /\ r.B.items = B.items
       /\ r.B.droppedCount = B.droppedCount + 1
       /\ r.B.onDrop = Append(B.onDrop, item)
  ELSE ~r.ret /\ r.B = B

C20_EnqueueFollowsStrategy ==
  \A k \in ItemKinds :
    C20_EnqueueOf(mb.buf, mb.config, [id |-> mb.n + 1, len |-> k.len, ser |-> k.ser])

(***************************************************************************)
(* C21  BoundedQueue is FIFO: the retained items are held in the order     *)
(* they were enqueued; dequeue() returns and removes the oldest of them;   *)
(* toArray() (and iteration) and drain() list them in that order; peek()   *)
(* returns the item the next dequeue() would return and changes nothing;   *)
(* drain() and clear() leave the queue empty and droppedCount unchanged;   *)
(* droppedCount decreases only through resetDroppedCount().                *)
(***************************************************************************)
C21_Step ==
  /\ StrictlyIncreasing(toArray(mb'.buf))
  /\ ev'.op = "dequeue" =>
       /\ ev'.ret = peek(mb.buf)
       /\ mb.buf.items # << >> =>
            /\ mb'.buf.items = Tail(mb.buf.items)
            /\ \A i \in 1..Len(mb'.buf.items) : ev'.ret < mb'.buf.items[i].id
  /\ ev'.op = "peek" =>
       /\ mb' = mb
       /\ ev'.ret = peek(mb.buf)
       /\ mb.buf.items # << >> =>
            /\ ev'.ret = Head(mb.buf.items).id
            /\ MBdequeue(mb.buf).items = Tail(mb.buf.items)
  /\ ev'.op = "toArray" =>
       mb' = mb /\ ev'.ret = toArray(mb.buf) /\ StrictlyIncreasing(ev'.ret)
  /\ ev'.op = "drain" =>
       /\ ev'.ret = toArray(mb.buf) /\ StrictlyIncreasing(ev'.ret)
       /\ mb'.buf.items = << >>
       /\ mb'.buf.droppedCount = mb.buf.droppedCount
  /\ ev'.op = "clear" =>
       mb'.buf.items = << >> /\ mb'.buf.droppedCount = mb.buf.droppedCount
  /\ ev'.op # "resetDroppedCount" => mb'.buf.droppedCount >= mb.buf.droppedCount

C21_QueueIsFifo == [][C21_Step]_vars

\* a queue that has dropped an item is drained of two items, oldest first
C21_Witness ==
  /\ ev.op = "drain" /\ Len(ev.ret) = 2 /\ ev.ret[1] < ev.ret[2]
  /\ mb.buf.items = << >> /\ mb.buf.droppedCount >= 1

(***************************************************************************)
(* C22  MessageBuffer byte budget: after any successful enqueue either the *)
(* estimated sizes of the held items sum to at most maxBytes, or the item  *)
(* just admitted is the only item held.                                    *)
(***************************************************************************)
C22_ByteBudget ==
  [][(ev'.op = "enqueue" /\ ev'.ret = TRUE) =>
       \/ HeldBytes(mb'.buf.items) <= mb.config.maxBytes
       \/ toArray(mb'.buf) = <<ev'.arg.id>>]_vars

(***************************************************************************)
(* C23  CancellationToken: isCancelled never returns to false; before the  *)
(* first cancel() no callback is invoked, and from then on every           *)
(* registered callback has been invoked exactly once: at the first         *)
(* cancel(), in registration order, when registered before it, and inside  *)
(* its own onCancelled() call when registered after it; a repeated         *)
(* cancel() changes nothing; cancel() and onCancelled() never let a        *)
(* callback's exception escape, and the callbacks after a throwing one     *)
(* still run.                                                              *)
(***************************************************************************)
TimesInvoked(T, c) == Cardinality({i \in 1..Len(T.log) : T.log[i] = c})

C23_TokenStep ==
  LET T == ut.tok
      U == ut'.tok
  IN
  /\ T.isCancelled => U.isCancelled
  /\ ~U.threw
  /\ \A c \in 1..U.n : TimesInvoked(U, c) = (IF U.isCancelled THEN 1 ELSE 0)
  /\ U.isCancelled => U.callbacks = << >> /\ TokenCancel(U) = U
  /\ ~U.isCancelled => U.callbacks = [c \in 1..U.n |-> c]
  /\ (~T.isCancelled /\ U.isCancelled) =>
       \A i, j \in 1..Len(U.log) :
         (U.log[i] < U.log[j] /\ U.log[j] <= T.n) => i < j
  /\ (T.isCancelled /\ U.n > T.n) =>
       /\ SubSeq(U.log, 1, Len(T.log)) = T.log
       /\ U.log[Len(T.log) + 1] = T.n + 1

C23_TokenCallbacks == [][C23_TokenStep]_vars

\* a throwing callback and two others were registered, the token was
\* cancelled, all three have run, in order, and the exception was logged
C23_Witness ==
  /\ ut.tok.isCancelled /\ ut.tok.n = 3
  /\ ut.tok.kinds[1] = "throws"
  /\ ut.tok.log = <<1, 2, 3>>
  /\ ut.tok.warned = 1 /\ ~ut.tok.threw

(***************************************************************************)
(* C24  Semaphore: acquire() completes at once, taking a permit, when one  *)
(* is free, and otherwise suspends at the tail of the wait queue;          *)
(* release() resumes the longest-waiting acquirer when there is one,       *)
(* leaving the free count unchanged, and otherwise adds one to the free    *)
(* count; waiters are resumed in the order of their acquire() calls; and   *)
(* tryAcquire() takes no permit while an acquirer is waiting.              *)
(***************************************************************************)
IsAcquireStep == Len(ut.sem.acquired) < MaxSemCalls /\ ut'.sem = acquire(ut.sem)

IsReleaseStep == ut.sem.releases < MaxSemCalls /\ ut'.sem = release(ut.sem)

IsTryAcquireStep == ut.sem.tries < MaxSemCalls /\ ut'.sem = tryAcquire(ut.sem)

Waiting(S) == {a \in 1..Len(S.acquired) : ~S.acquired[a]}

C24_SemaphoreStep ==
  LET S == ut.sem
      U == ut'.sem
      a == Len(S.acquired) + 1
  IN
  /\ StrictlyIncreasing(U.waitQueue)
  /\ Waiting(U) = {U.waitQueue[i] : i \in 1..Len(U.waitQueue)}
  /\ IsAcquireStep =>
       IF S.permits > 0
       THEN U.permits = S.permits - 1 /\ U.acquired[a] /\ U.waitQueue = S.waitQueue
       ELSE U.permits = S.permits /\ ~U.acquired[a] /\ U.waitQueue = Append(S.waitQueue, a)
  /\ IsReleaseStep =>
       IF S.waitQueue # << >>
       THEN /\ U.permits = S.permits
            /\ U.acquired[Head(S.waitQueue)]
            /\ \A w \in Waiting(U) : Head(S.waitQueue) < w
            /\ U.waitQueue = Tail(S.waitQueue)
       ELSE U.permits = S.permits + 1 /\ U.acquired = S.acquired
  /\ (IsTryAcquireStep /\ S.waitQueue # << >>) =>
       U.permits = S.permits /\ U.taken = S.taken

C24_Semaphore == [][C24_SemaphoreStep]_vars

\* one permit: the first acquire() took it, the second and third waited, a
\* release() resumed the second, and a tryAcquire() made while the third
\* waits has taken nothing
C24_Witness ==
  /\ ut.sem.acquired = <<TRUE, TRUE, FALSE>>
  /\ ut.sem.waitQueue = <<3>>
  /\ ut.sem.releases = 1 /\ ut.sem.permits = 0
  /\ ut.sem.tries >= 1 /\ ut.sem.taken = 0

(***************************************************************************)
(* C25  RateLimiter with L = max(2, min(10, maxHz)): isAllowed() returns   *)
(* true, and records the time of the call, exactly when fewer than L       *)
(* allowed calls lie in the trailing window (less than 1000 ms old); a     *)
(* refused call records nothing.  Hence no allowed call is followed by L   *)
(* more allowed calls within 1000 ms, and a call made when every allowed   *)
(* call is 1000 ms old or older is allowed.  L is the limit the limiter    *)
(* holds, for an argument below 2 and above 10 too.                        *)
(***************************************************************************)
AllowedSince(R, from, to) ==
  Cardinality({i \in 1..Len(R.allowed) : from <= R.allowed[i] /\ R.allowed[i] < to})

C25_RateLimiterStep ==
  LET R == ut.rl
      U == ut'.rl
      L == IF R.arg < 2 THEN 2 ELSE IF R.arg > 10 THEN 10 ELSE R.arg
      inWindow == AllowedSince(R, R.now - 999, R.now + 1)
  IN
  (R.n < MaxRlCalls /\ U = isAllowed(R)) =>
    /\ R.maxHz = L
    /\ U.ret = (inWindow < L)
    /\ U.allowed = (IF inWindow < L THEN Append(R.allowed, R.now) ELSE R.allowed)
    /\ ~U.ret => \A t \in 0..MaxNow :
                   AllowedSince(U, t, t + 1) = AllowedSince(R, t, t + 1)
    /\ \A i \in 1..Len(U.allowed) :
         AllowedSince(U, U.allowed[i], U.allowed[i] + 1000) <= L
    /\ (\A i \in 1..Len(R.allowed) : R.now - R.allowed[i] >= 1000) => U.ret

C25_RateLimiter == [][C25_RateLimiterStep]_vars

\* maxHz = 1 behaves as 2: two calls allowed at time 0, a third refused
\* inside the window, a fourth allowed when the window has rolled over
C25_Witness ==
  /\ ut.rl.arg = 1 /\ ut.rl.maxHz = 2
  /\ ut.rl.allowed = <<0, 0, 1000>>
  /\ ut.rl.n = 4 /\ ut.rl.ret

(***************************************************************************)
(* C26  createThrottler, trailing edge: after a call that does not execute *)
(* on the leading edge, with trailing set, exactly one timer is pending,   *)
(* and never more than one, however many calls arrive before it fires;     *)
(* when it fires, fn is executed once with the arguments of the most       *)
(* recent call; and after cancel() no timer is pending, so the pending     *)
(* execution never runs.                                                   *)
(***************************************************************************)
C26_ThrottlerStep ==
  LET H == ut.th
      U == ut'.th
  IN
  /\ Len(U.timers) <= 1
  /\ U.timeoutId = (U.timers # << >>)
  /\ (H.n < MaxThCalls /\ U = throttled(H)) =>
       IF H.leading /\ H.now - H.lastExecution >= H.interval
       THEN U.executions = Append(H.executions, H.n + 1)
       ELSE /\ U.executions = H.executions
            /\ H.trailing => Len(U.timers) = 1
            /\ H.timers # << >> => U.timers = H.timers
  /\ (\E i \in 1..Len(H.timers) : timerMayRun(H.timers[i], H.now) /\ U = throttleTimer(H, i)) =>
       /\ H.n >= 1
       /\ U.executions = Append(H.executions, H.n)
       /\ U.timers = << >>
  /\ U = throttledCancel(H) =>
       U.timers = << >> /\ U.executions = H.executions
  /\ Len(U.executions) > Len(H.executions) =>
       \/ H.n < MaxThCalls /\ U = throttled(H)
       \/ H.timers # << >>

C26_ThrottlerTrailing == [][C26_ThrottlerStep]_vars

\* three calls inside one interval: the first set the timer, which has
\* fired and executed fn once, with the arguments of the third
C26_Witness ==
  /\ ut.th.trailing /\ ut.th.n = 3
  /\ ut.th.executions = <<3>>
  /\ ut.th.timers = << >> /\ ~ut.th.timeoutId

(***************************************************************************)
(* C27  ValueSmoother.shouldEmit returns true and updates the last value   *)
(* and time for the first value ever, for a forced emission, or when the   *)
(* minimum interval has elapsed since the last emission; otherwise it      *)
(* returns false and leaves at most one pending timer; when that timer     *)
(* fires the last value becomes the most recent value offered to           *)
(* shouldEmit; after cancel() no timer is pending.                         *)
(***************************************************************************)
C27_SmootherStep ==
  LET V == ut.vs
      U == ut'.vs
  IN
  /\ Len(U.timers) <= 1
  /\ \A forceEmit \in BOOLEAN :
       (V.n < MaxVsCalls /\ U = shouldEmit(V, forceEmit)) =>
         IF forceEmit \/ V.lastValue = 0 \/ V.now - V.lastUpdate >= V.minInterval
         THEN U.ret /\ U.lastValue = V.n + 1 /\ U.lastUpdate = V.now
         ELSE ~U.ret /\ U.lastValue = V.lastValue /\ Len(U.timers) = 1
  /\ (\E i \in 1..Len(V.timers) : timerMayRun(V.timers[i].due, V.now) /\ U = smootherTimer(V, i)) =>
       U.lastValue = V.n /\ U.timers = << >>
  /\ U = smootherCancel(V) => U.timers = << >> /\ U.lastValue = V.lastValue

C27_SmootherEmits == [][C27_SmootherStep]_vars

(***************************************************************************)
(* C28  WSClient heartbeat: a heartbeat timer is running only while the    *)
(* state is connected (so it is cleared on every transition out of         *)
(* connected), and at most one heartbeat timer exists at any time, even    *)
(* when several connection attempts open.                                  *)
(***************************************************************************)
HeartbeatTimers(C) == (IF C.heartbeatTimer THEN 1 ELSE 0) + C.leaked

C28_OneHeartbeatWhileConnected ==
  /\ HeartbeatTimers(cl) > 0 => cl.state = "connected"
  /\ HeartbeatTimers(cl) <= 1

(***************************************************************************)
(* WSClient: the two delays a reconnect can wait for                       *)
(***************************************************************************)
\* the delay scheduleReconnect computes once reconnectAttempt has become k
ReconnectDelay(C, k) ==
  Min(C.config.reconnectDelay * Pow(2, k - 1), C.config.maxReconnectDelay)

\* the configuration connect() hands to withRetry
ConnectRetryConfig(C) ==
  RetryConfig(C.config.maxReconnectAttempts, 1000, 30000, 2, TRUE)

\* the step ends the backoff sleep of withRetry loop k and starts its next
\* connection attempt
IsRetryWakeOf(k) ==
  /\ cl.loops[k].pc = "sleeping"
  /\ cl' = retryAttempt(cl, k, cl.loops[k].attempt + 1)
  /\ Len(cl'.transports) > Len(cl.transports)

(***************************************************************************)
(* C29  WSClient reconnect scheduling: at most one reconnect timer is      *)
(* outstanding; the k-th consecutive reconnect is delayed by               *)
(* min(reconnectDelay * 2^(k-1), maxReconnectDelay); a reconnect timer     *)
(* that fires after cancellation, or after the state has left              *)
(* reconnecting, starts no connection attempt.  With reconnect enabled, a  *)
(* connection attempt that follows a failed one is started either by the   *)
(* reconnect timer or by the backoff sleep of connect()'s retry loop, and  *)
(* the delay it waited for is the one the claim gives.                     *)
(***************************************************************************)
C29_ReconnectStep ==
  /\ (cl.config.reconnect /\ Len(cl'.transports) > Len(cl.transports) /\ ~IsConnectStep) =>
       \/ IsReconnectTimerStep /\ ~cl.cancelled /\ cl.state = "reconnecting"
       \/ \E k \in DOMAIN cl.loops : IsRetryWakeOf(k)
  /\ \A k \in DOMAIN cl.loops :
       (cl.config.reconnect /\ IsRetryWakeOf(k)) =>
         \A random \in Randoms :
           calculateBackoffDelay(cl.loops[k].attempt, ConnectRetryConfig(cl), random)
             = ReconnectDelay(cl, cl.loops[k].attempt + 1)
  /\ (IsReconnectTimerStep /\ (cl.cancelled \/ cl.state # "reconnecting")) =>
       Len(cl'.transports) = Len(cl.transports)

C29_ReconnectDelays == [][C29_ReconnectStep]_vars

(***************************************************************************)
(* C30  The promise returned by WSClient.connect() rejects only once       *)
(* reconnection is exhausted or cancelled: in the step in which it         *)
(* rejects, the client ends in state failed or disconnected with no        *)
(* reconnect timer pending, and either no reconnect attempt remains or the *)
(* client has been disconnected.                                           *)
(***************************************************************************)
\* the promise of the k-th connect() call rejects in this step
RejectsNow(k) ==
  /\ cl'.loops[k].pc = "rejected"
  /\ k \in DOMAIN cl.loops => cl.loops[k].pc # "rejected"

C30_RejectStep ==
  \A k \in DOMAIN cl'.loops :
    RejectsNow(k) =>
      /\ cl'.state \in {"failed", "disconnected"}
      /\ ~cl'.reconnectTimer
      /\ \/ cl'.cancelled
         \/ ~(cl'.config.reconnect
              /\ cl'.reconnectAttempt < cl'.config.maxReconnectAttempts)

C30_RejectsOnlyWhenExhausted == [][C30_RejectStep]_vars

(***************************************************************************)
(* WorkerChannel: helpers of the claims                                    *)
(***************************************************************************)
\* the step is the timer of request id firing
IsTimeoutOf(id) ==
  /\ ut.wc.reqs[id].timer /\ timerMayRun(ut.wc.reqs[id].due, ut.wc.now)
  /\ ut'.wc = requestTimeout(ut.wc, id)

\* the step is token.cancel() of a token that was not cancelled
IsTokenCancelOf(token) ==
  /\ token \notin ut.wc.cancelled
  /\ ut'.wc = channelTokenCancel(ut.wc, token)

\* the step is a shutdown() call
IsShutdownStep == \E postThrows \in BOOLEAN : ut'.wc = shutdown(ut.wc, postThrows)

\* the step resumes a suspended shutdown() after its await
IsShutdownResumeStep == ut'.wc = shutdownResume(ut.wc)

PostedIds(W) == [i \in 1..Len(W.posted) |-> W.posted[i].id]

(***************************************************************************)
(* C31  WorkerChannel: the promise of each request settles at most once    *)
(* (resolve or reject is called once), a request is in the pending set     *)
(* exactly while its promise is unsettled, its timer is live only while it *)
(* is pending and is set 5000 ms ahead; a request whose timer fires is     *)
(* rejected with the timeout error; and once a request has settled no      *)
(* response, timer or token changes it.                                    *)
(***************************************************************************)
C31_ChannelStep ==
  LET W == ut.wc
      U == ut'.wc
  IN
  /\ \A id \in 1..Len(U.reqs) :
       /\ U.reqs[id].settles <= 1
       /\ id \in U.pendingRequests <=> U.reqs[id].settles = 0
       /\ U.reqs[id].settles = 0 <=> U.reqs[id].outcome = "pending"
       /\ U.reqs[id].timer => id \in U.pendingRequests
  /\ Len(U.reqs) > Len(W.reqs) =>
       U.reqs[Len(U.reqs)].due = W.now + DefaultTimeoutMs
  /\ \A id \in 1..Len(W.reqs) :
       /\ IsTimeoutOf(id) =>
            W.reqs[id].outcome = "pending" /\ U.reqs[id].outcome = "timeout"
       /\ W.reqs[id].outcome # "pending" => U.reqs[id] = W.reqs[id]

C31_SettlesOnce == [][C31_ChannelStep]_vars

\* a request timed out and the worker's response for it arrived afterwards
C31_Witness ==
  \E id \in 1..Len(ut.wc.reqs) :
    /\ ut.wc.reqs[id].outcome = "timeout"
    /\ id \in ut.wc.answered
    /\ \E other \in 1..Len(ut.wc.reqs) : ut.wc.reqs[other].outcome = "resolved"

(***************************************************************************)
(* C32  WorkerChannel.shutdown() rejects every outstanding request with    *)
(* the shutdown error, leaves the pending set empty, sends a SHUTDOWN      *)
(* message to the worker and, when it resumes after the await, terminates  *)
(* it; every call made afterwards fails without posting a message, and a   *)
(* second shutdown() does nothing.                                         *)
(***************************************************************************)
C32_ShutdownStep ==
  LET W == ut.wc
      U == ut'.wc
  IN
  /\ (~W.isShutdown /\ IsShutdownStep) =>
       /\ \A id \in W.pendingRequests : U.reqs[id].outcome = "shutdown"
       /\ U.pendingRequests = {}
       /\ Len(U.posted) = Len(W.posted) + 1
       /\ U.posted[Len(U.posted)].type = "SHUTDOWN"
       /\ shutdownSuspended(U)
  /\ (shutdownSuspended(W) /\ IsShutdownResumeStep) =>
       U.terminated /\ U = [W EXCEPT !.terminated = TRUE]
  /\ W.isShutdown =>
       /\ U.posted = W.posted /\ U.reqs = W.reqs /\ U.pendingRequests = {}
       /\ U.nextId = W.nextId
       /\ U.ret \in {W.ret, "Worker is shutdown"}
       /\ \A token \in RequestTokens, postThrows \in BOOLEAN :
            /\ initialize(W, postThrows).ret = "Worker is shutdown"
            /\ computeProgress(W, token, postThrows).ret = "Worker is shutdown"
            /\ computeETA(W, token, postThrows).ret = "Worker is shutdown"
       /\ IsShutdownStep => U = W

C32_Shutdown == [][C32_ShutdownStep]_vars

(***************************************************************************)
(* C33  When the token of a pending WorkerChannel request is cancelled, or *)
(* its timer fires, the requests of that token (that request) are removed  *)
(* from the pending set and rejected in that step, with the timer cleared; *)
(* every other request keeps its state, its place in the pending set and   *)
(* its timer; the ids handed out are strictly increasing; and a new        *)
(* request can still be sent.                                              *)
(***************************************************************************)
C33_Others(W, U, gone) ==
  \A id \in 1..Len(W.reqs) :
    id \notin gone =>
      /\ U.reqs[id] = W.reqs[id]
      /\ id \in U.pendingRequests <=> id \in W.pendingRequests

C33_Usable(W, U) ==
  /\ U.isShutdown = W.isShutdown /\ U.nextId = W.nextId
  /\ ~U.isShutdown =>
       LET V == sendMessage(U, "COMPUTE_ETA", NoToken, FALSE)
       IN V.ret = "sent" /\ U.nextId \in V.pendingRequests

C33_RequestStep ==
  LET W == ut.wc
      U == ut'.wc
  IN
  /\ \A token \in RequestTokens \ {NoToken} :
       IsTokenCancelOf(token) =>
         LET gone == {id \in W.pendingRequests : W.reqs[id].token = token}
         IN /\ \A id \in gone :
                 /\ id \notin U.pendingRequests
                 /\ U.reqs[id].outcome = "cancelled" /\ ~U.reqs[id].timer
            /\ C33_Others(W, U, gone)
            /\ C33_Usable(W, U)
  /\ \A id \in 1..Len(W.reqs) :
       IsTimeoutOf(id) =>
         /\ id \notin U.pendingRequests /\ U.reqs[id].outcome = "timeout"
         /\ C33_Others(W, U, {id})
         /\ C33_Usable(W, U)
  /\ StrictlyIncreasing(PostedIds(U))
  /\ Len(U.reqs) > Len(W.reqs) => Len(U.reqs) = W.nextId /\ U.nextId = W.nextId + 1

C33_OnlyThatRequest == [][C33_RequestStep]_vars

\* one request was rejected by its token while the other, sent before the
\* token fired, is still pending with its timer
C33_Witness ==
  \E a, b \in 1..Len(ut.wc.reqs) :
    /\ ut.wc.reqs[a].outcome = "cancelled"
    /\ ut.wc.reqs[b].token \notin ut.wc.cancelled
    /\ b \in ut.wc.pendingRequests /\ ut.wc.reqs[b].timer
    /\ ut.wc.posted # << >>

(***************************************************************************)
(* C34  Every AsyncOperation value produced by the constructors or by any  *)
(* sequence of updateOperationState / asyncOperationReducer transitions    *)
(* has data set only in state success, error set only in state error, and  *)
(* endTime set only in the states success, error and cancelled.            *)
(***************************************************************************)
C34_OperationShape ==
  LET op == ut.ao.op IN
  /\ op.data # Undefined => op.state = "success"
  /\ op.error # Undefined => op.state = "error"
  /\ op.endTime # Undefined => isTerminalState(op.state)

(***************************************************************************)
(* C35  A WSClient has at most one transport that is opening or open at    *)
(* any time, and the close event of a transport that is not the current    *)
(* one changes neither the state nor the reference to the current          *)
(* transport.  Opening and open are read from readyState, which tells     *)
(* them apart where the WebSocket class defines the readyState constants.  *)
(***************************************************************************)
LiveTransports(C) ==
  {t \in DOMAIN C.transports : C.transports[t].rs \in {"connecting", "open"}}

C35_TransportStep ==
  /\ Cardinality(LiveTransports(cl')) <= 1
  /\ \A t \in DOMAIN cl.transports :
       (IsCloseOf(t) /\ cl.ws # NoTransport /\ cl.ws # t) =>
         cl'.state = cl.state /\ cl'.ws = cl.ws

C35_OneTransport == [][C35_TransportStep]_vars

(***************************************************************************)
(* C36  The flush on open removes from the buffer only envelopes it        *)
(* transmits: it stops at the first message it cannot transmit, so after   *)
(* an open event (whose callbacks send nothing) the buffer is a suffix of  *)
(* the buffer before, and every envelope removed is on the wire.           *)
(***************************************************************************)
\* the step delivers the open event of transport t and the application
\* sends nothing from its callbacks
IsQuietOpenOf(t) ==
  /\ taskIsDue(cl, t, "open")
  /\ \E len \in MsgLens : cl' = onopen(taskTaken(cl), t, "none", len)

C36_FlushStep ==
  \A t \in DOMAIN cl.transports :
    IsQuietOpenOf(t) =>
      LET old == cl.messageBuffer.items
          new == cl'.messageBuffer.items
          sent == {cl'.wire[i].seq : i \in (Len(cl.wire) + 1)..Len(cl'.wire)}
      IN \E n \in 0..Len(old) :
           /\ new = SubSeq(old, n + 1, Len(old))
           /\ \A i \in 1..n : old[i].id \in sent

C36_FlushLosesNothing == [][C36_FlushStep]_vars

(***************************************************************************)
(* C37  createThrottler caps the execution frequency: any two consecutive  *)
(* executions of the wrapped function are at least                         *)
(* 1000 / max(2, min(10, maxHz)) ms apart, for every leading/trailing      *)
(* setting and every timing of calls and timer firings.                    *)
(***************************************************************************)
C37_ExecutionStep ==
  LET H == ut.th
      U == ut'.th
  IN
  /\ \E maxHz \in ThMaxHzArgs : U.interval = WindowMs \div Max(2, Min(10, maxHz))
  /\ (Len(U.executions) > Len(H.executions) /\ Len(H.executions) > 0) =>
       U.lastExecution - H.lastExecution >= H.interval

C37_ExecutionsApart == [][C37_ExecutionStep]_vars

(***************************************************************************)
(* C38  The promise returned by WSClient.connect() always eventually       *)
(* settles, it never stays pending forever: whenever the promise of a      *)
(* connect() call is pending while the client is connected or failed or    *)
(* has been disconnected, the promise settles later on.  Stated of the     *)
(* runs in which every timer task that is set runs and every backoff sleep *)
(* elapses (SpecClientFair); a run that has used up the transports the     *)
(* model allows is left aside.                                             *)
(***************************************************************************)
\* the promise of the k-th connect() call is pending
Pending(k) == k \in DOMAIN cl.loops /\ cl.loops[k].pc \notin {"resolved", "rejected"}

C38_MustSettle(k) ==
  Pending(k) /\ (cl.state \in {"connected", "failed"} \/ cl.cancelled)

C38_NeverPendingForever ==
  \A k \in 1..MaxConnects :
    [](C38_MustSettle(k) => <>(~Pending(k) \/ Len(cl.transports) = MaxTransports))

(***************************************************************************)
(* C39  ConcurrencyLimiter is work-conserving and counts each operation    *)
(* once: whenever the queue is non-empty exactly maxConcurrent operations  *)
(* are running; running is the number of operations in flight and the      *)
(* queue holds exactly the waiting operations, each once; every admitted   *)
(* operation is queued, running or finished, its operation was invoked at  *)
(* most once, and resolve or reject of its promise has been called exactly *)
(* once if it is finished and never otherwise.                             *)
(***************************************************************************)
C39_WorkConserving ==
  /\ Len(lim.queue) > 0 => lim.running = lim.config.maxConcurrent
  /\ lim.running = Cardinality(OpsWith("running"))
  /\ {lim.queue[i] : i \in 1..Len(lim.queue)} = OpsWith("queued")
  /\ Len(lim.queue) = Cardinality(OpsWith("queued"))
  /\ \A op \in OpIds :
       /\ op <= lim.n <=> lim.ops[op].status # "new"
       /\ lim.ops[op].status \in {"new", "queued", "running", "resolved", "rejected"}
       /\ lim.ops[op].invoked <= 1
       /\ lim.ops[op].status = "running" => lim.ops[op].invoked = 1
       /\ lim.ops[op].status = "queued" => lim.ops[op].invoked = 0
       /\ lim.ops[op].settles =
            (IF lim.ops[op].status \in {"resolved", "rejected"} THEN 1 ELSE 0)

\* a token was cancelled after its operation had started, while another
\* operation waits behind a full set of running ones, and one has finished
C39_Witness ==
  /\ Len(lim.queue) > 0
  /\ \E op \in OpIds :
       /\ lim.ops[op].status = "running"
       /\ IsCancelledTok(lim, lim.ops[op].token)
  /\ \E op \in OpIds : lim.ops[op].status = "resolved"

(***************************************************************************)
(* C40  Every item a MessageBuffer removes to make room for a new one, for *)
(* the count limit or for the byte budget, is made observable: it is       *)
(* handed to onDrop and droppedCount grows by one for it; so an enqueue    *)
(* that admits its item leaves as many items held plus dropped as there    *)
(* were, plus one.                                                         *)
(***************************************************************************)
C40_EnqueueStep ==
  (ev'.op = "enqueue" /\ mb'.n = mb.n + 1) =>
    LET old == {mb.buf.items[i].id : i \in 1..Len(mb.buf.items)}
        new == {mb'.buf.items[i].id : i \in 1..Len(mb'.buf.items)}
        evicted == old \ new
        handed == {mb'.buf.onDrop[i].id :
                     i \in (Len(mb.buf.onDrop) + 1)..Len(mb'.buf.onDrop)}
        counted == mb'.buf.droppedCount - mb.buf.droppedCount
    IN /\ evicted \subseteq handed
       /\ counted >= Cardinality(evicted)
       /\ ev'.ret => Len(mb.buf.items) + 1 = Len(mb'.buf.items) + counted

C40_EvictionsObservable == [][C40_EnqueueStep]_vars

====
